---- MODULE Spec2Model ----
(***************************************************************************)
(* Meta-League Evolution Engine: objective algebra, NSGA-II selector,      *)
(* proof gate and generational driver.                                     *)
(*                                                                         *)
(* Numbers.  The TypeScript sources compute in IEEE doubles.  Here every   *)
(* objective value, threshold, tool cost and state component is an integer *)
(* number of hundredths (0.5 is 50, 1000 is 100000 ...), so comparisons    *)
(* and sums are exact; Math.sqrt and / round to the nearest hundredth.     *)
(* Crowding distances are exact rationals or +Infinity.  A Math.random()   *)
(* draw is an integer number of tenths taken from RandomOutcomes.          *)
(* Wall-clock timestamps (Date.now()) are left out of every record.        *)
(* An optional slot (rank?, crowding?, proof?, threshold?) is <<>> when    *)
(* undefined and <<v>> when it holds v.                                    *)
(***************************************************************************)
EXTENDS Integers, Sequences, FiniteSets, TLC

\* ------------------------------------------------------------------ bounds
\* largest objective value drawn for a genome in the selector's inputs
MaxObj == 2
\* largest population handed to the selector's operations
MaxGenomes == 3

\* largest population handed to the proof gate's operations
MaxAgents == 2

\* largest populationSize of a driver configuration
MaxPopulation == 2
\* largest generations of a driver configuration
MaxGenerations == 3
\* largest stateDimension of a driver configuration
MaxDimension == 1

\* the results Math.random() can have, in tenths
RandomOutcomes == {0, 9}

\* ----------------------------------------------------------- small helpers
Undefined == <<>>

Some(v) == <<v>>

IsDefined(slot) == slot # <<>>

Range(s) == {s[i] : i \in 1..Len(s)}

Abs(x) == IF x < 0 THEN -x ELSE x

Min(a, b) == IF a <= b THEN a ELSE b

Max(a, b) == IF a >= b THEN a ELSE b

RECURSIVE Gcd(_, _)
Gcd(a, b) == IF b = 0 THEN a ELSE Gcd(b, a % b)

RECURSIVE SeqSum(_)
SeqSum(s) == IF s = <<>> THEN 0 ELSE Head(s) + SeqSum(Tail(s))

\* Array.prototype.slice(0, k); a negative k counts from the end
Slice(s, k) ==
  IF k >= 0 THEN SubSeq(s, 1, Min(k, Len(s)))
  ELSE SubSeq(s, 1, Max(Len(s) + k, 0))

\* Array.prototype.sort with a consistent comparator (stable): lt holds the
\* pairs <<x, y>> for which the comparator is negative (x goes before y)
RECURSIVE insertStable(_, _, _)
insertStable(sorted, x, lt) ==
  IF sorted = <<>> THEN <<x>>
  ELSE IF <<x, Head(sorted)>> \in lt THEN <<x>> \o sorted
  ELSE <<Head(sorted)>> \o insertStable(Tail(sorted), x, lt)

RECURSIVE stableSort(_, _)
stableSort(s, lt) ==
  IF s = <<>> THEN <<>>
  ELSE insertStable(stableSort(SubSeq(s, 1, Len(s) - 1), lt), s[Len(s)], lt)

\* ---------------------------------------------------------- number: Infinity
\* A crowding distance: +Infinity, NaN, or the rational num/den in lowest terms.
Infinity == [inf |-> TRUE, num |-> 0, den |-> 1]

NaN == [inf |-> FALSE, num |-> 0, den |-> 0]

IsNaN(a) == ~a.inf /\ a.den = 0

\* n / d for d > 0
ratPos(n, d) ==
  IF n = 0 THEN [inf |-> FALSE, num |-> 0, den |-> 1]
  ELSE [inf |-> FALSE, num |-> n \div Gcd(Abs(n), d), den |-> d \div Gcd(Abs(n), d)]

\* n / d for n >= 0: x/0 is +Infinity and 0/0 is NaN
Rat(n, d) ==
  IF d = 0 THEN (IF n = 0 THEN NaN ELSE Infinity)
  ELSE IF d < 0 THEN ratPos(-n, -d)
  ELSE ratPos(n, d)

Zero == Rat(0, 1)

\* a + b
NumAdd(a, b) ==
  IF IsNaN(a) \/ IsNaN(b) THEN NaN
  ELSE IF a.inf \/ b.inf THEN Infinity
  ELSE Rat(a.num * b.den + b.num * a.den, a.den * b.den)

\* a >= b; false when either is NaN
NumGeq(a, b) ==
  IF IsNaN(a) \/ IsNaN(b) THEN FALSE
  ELSE IF a.inf THEN TRUE
  ELSE IF b.inf THEN FALSE
  ELSE a.num * b.den >= b.num * a.den

\* a > b; false when either is NaN, and Infinity > Infinity is false
NumGt(a, b) == NumGeq(a, b) /\ ~NumGeq(b, a)

\* ------------------------------------------------------- objectives.ts
Senses == {"max", "min"}

noWorse(a, b, sense) == IF sense = "max" THEN a >= b ELSE a <= b

strictlyBetter(a, b, sense) == IF sense = "max" THEN a > b ELSE a < b

\* a law: [name, sense, threshold (optional), idx]; evaluate reads the
\* objective value at position idx of the individual
satisfiesLaw(law, value) ==
  IF ~IsDefined(law.threshold) THEN TRUE
  ELSE IF law.sense = "max" THEN value >= law.threshold[1]
  ELSE value <= law.threshold[1]

\* ------------------------------------------------------------- nsga2.ts
\* A genome: [id, objectives |-> [values |-> <<...>>], rank, crowding].
\* A population is a sequence of genomes; fronts hold positions in it, as
\* the source's fronts hold references to the same objects.

\* dominates (22-30): the guard that throws 'Objective vector length must match specs'
dominatesThrows(a, b, specs) ==
  \/ Len(a.objectives.values) # Len(specs)
  \/ Len(b.objectives.values) # Len(specs)

dominatesNoStrict(a, b, specs) ==
  \A i \in 1..Len(specs) :
      noWorse(a.objectives.values[i], b.objectives.values[i], specs[i].sense)

\* dominates (32-48), for arguments on which it does not throw
dominates(a, b, specs) ==
  /\ \A i \in 1..Len(specs) :
        noWorse(a.objectives.values[i], b.objectives.values[i], specs[i].sense)
  /\ \E i \in 1..Len(specs) :
        strictlyBetter(a.objectives.values[i], b.objectives.values[i], specs[i].sense)

Positions(pop) == [i \in 1..Len(pop) |-> i]

Ids(pop) == {pop[i].id : i \in 1..Len(pop)}

\* fastNonDominatedSort throws when a dominates call of its pair loop throws (70-79)
sortThrows(pop, specs) ==
  \E p, q \in 1..Len(pop) :
      pop[p].id # pop[q].id /\ dominatesThrows(pop[p], pop[q], specs)

\* S (60, 70-79): per id, the genomes it dominates, in population order
sortS(pop, specs) ==
  [id \in Ids(pop) |->
     LET p == CHOOSE i \in 1..Len(pop) : pop[i].id = id IN
     SelectSeq(Positions(pop),
               LAMBDA q : pop[p].id # pop[q].id /\ dominates(pop[p], pop[q], specs))]

\* n (61, 70-79): per id, the number of genomes that dominate it
sortN(pop, specs) ==
  [id \in Ids(pop) |->
     LET p == CHOOSE i \in 1..Len(pop) : pop[i].id = id IN
     Cardinality({q \in 1..Len(pop) :
        /\ pop[p].id # pop[q].id
        /\ ~dominates(pop[p], pop[q], specs)
        /\ dominates(pop[q], pop[p], specs)})]

sortFront0TakesAll(pop, n) == Positions(pop)

\* front 0 (82-86): the genomes with n = 0, in population order
sortFront0(pop, n) == SelectSeq(Positions(pop), LAMBDA p : n[pop[p].id] = 0)

peelStepAtOnce(st, q, n1, i) ==
  [n |-> n1, next |-> Append(st.next, q),
   pop |-> [st.pop EXCEPT ![q].rank = Some(i + 1)]]

\* the inner loop over q in S(p) (95-101); st = [n, next, pop]
peelStep(st, q, n1, i) ==
  IF n1[st.pop[q].id] = 0
  THEN [n |-> n1, next |-> Append(st.next, q),
        pop |-> [st.pop EXCEPT ![q].rank = Some(i + 1)]]
  ELSE [st EXCEPT !.n = n1]

RECURSIVE peelQ(_, _, _)
peelQ(qs, st, i) ==
  IF qs = <<>> THEN st
  ELSE peelQ(Tail(qs),
             peelStep(st, Head(qs), [st.n EXCEPT ![st.pop[Head(qs)].id] = @ - 1], i),
             i)

\* the loop over p in fronts[i] (94-102)
RECURSIVE peelP(_, _, _, _)
peelP(ps, S, st, i) ==
  IF ps = <<>> THEN st
  ELSE peelP(Tail(ps), S, peelQ(S[st.pop[Head(ps)].id], st, i), i)

\* the while loop (90-108); i counts from 0 as in the source
RECURSIVE buildFronts(_, _, _, _, _)
RECURSIVE buildNext(_, _, _, _)
buildFronts(fronts, S, n, pop, i) ==
  IF i + 1 > Len(fronts) \/ Len(fronts[i + 1]) = 0
  THEN [fronts |-> fronts, pop |-> pop]
  ELSE buildNext(fronts, S, peelP(fronts[i + 1], S, [n |-> n, next |-> <<>>, pop |-> pop], i), i)

\* the end of one round of the while loop (104-107)
buildNext(fronts, S, st, i) ==
  buildFronts(IF Len(st.next) > 0 THEN Append(fronts, st.next) ELSE fronts,
              S, st.n, st.pop, i + 1)

\* the rank written on the members of front 0 (83)
rankFront0(pop, f0) ==
  [p \in 1..Len(pop) |->
     IF p \in Range(f0) THEN [pop[p] EXCEPT !.rank = Some(0)] ELSE pop[p]]

\* the return statement (110)
sortReturn(built) ==
  [fronts |-> SelectSeq(built.fronts, LAMBDA f : Len(f) > 0), pop |-> built.pop]

\* the loops of fastNonDominatedSort once S, n and front 0 are known
sortFrom(pop, S, n, f0) ==
  sortReturn(buildFronts(IF f0 = <<>> THEN <<>> ELSE <<f0>>, S, n, rankFront0(pop, f0), 0))

sortWith(pop, S, n) == sortFrom(pop, S, n, sortFront0(pop, n))

\* fastNonDominatedSort (55-111) when it does not throw:
\* [fronts |-> the returned list, pop |-> the population with rank slots written]
fastNonDominatedSort(pop, specs) == sortWith(pop, sortS(pop, specs), sortN(pop, specs))

\* g.rank ?? Infinity (186-187): a rank is a natural number or missing
rankOrInf(g) == IF IsDefined(g.rank) THEN Rat(g.rank[1], 1) ELSE Infinity

\* g.crowding ?? 0 (193-194, 222)
crowdingOrZero(g) == IF IsDefined(g.crowding) THEN g.crowding[1] ELSE Zero

\* the comparator of the per-axis sort (144-148): negative when a goes first
axisLt(front, pop, m, sense) ==
  {<<a, b>> \in Range(front) \X Range(front) :
     LET av == pop[a].objectives.values[m]
         bv == pop[b].objectives.values[m]
     IN IF sense = "max" THEN bv - av < 0 ELSE av - bv < 0}

\* range (155-157): sorted[0]'s value minus sorted[last]'s value
axisRange(sorted, pop, m) ==
  pop[sorted[1]].objectives.values[m] - pop[sorted[Len(sorted)]].objectives.values[m]

\* the distance added to the interior members (162-167)
axisAdd(d2, sorted, pop, m, range) ==
  [id \in DOMAIN d2 |->
     IF \E i \in 2..(Len(sorted) - 1) : pop[sorted[i]].id = id
     THEN LET i == CHOOSE j \in 2..(Len(sorted) - 1) : pop[sorted[j]].id = id
          IN NumAdd(d2[id],
                    Rat(Abs(pop[sorted[i + 1]].objectives.values[m]
                            - pop[sorted[i - 1]].objectives.values[m]), range))
     ELSE d2[id]]

axisUpdateNoGuard(dist, sorted, pop, m, range) ==
  axisAdd([id \in DOMAIN dist |->
             IF id \in {pop[sorted[1]].id, pop[sorted[Len(sorted)]].id}
             THEN Infinity ELSE dist[id]],
          sorted, pop, m, range)

\* one round of the loop over the objectives, once sorted (150-167);
\* range < 1e-10 is a range below one unit at this resolution
axisUpdate(dist, sorted, pop, m, range) ==
  IF range < 1
  THEN [id \in DOMAIN dist |->
          IF id \in {pop[sorted[1]].id, pop[sorted[Len(sorted)]].id} THEN Infinity ELSE dist[id]]
  ELSE axisAdd([id \in DOMAIN dist |->
                  IF id \in {pop[sorted[1]].id, pop[sorted[Len(sorted)]].id}
                  THEN Infinity ELSE dist[id]],
               sorted, pop, m, range)

axisSorted(dist, sorted, pop, m) == axisUpdate(dist, sorted, pop, m, axisRange(sorted, pop, m))

\* one round of the loop over the objectives (140-168)
axisPass(dist, front, pop, m, sense) ==
  axisSorted(dist, stableSort(front, axisLt(front, pop, m, sense)), pop, m)

RECURSIVE axisLoop(_, _, _, _, _)
axisLoop(dist, front, pop, specs, m) ==
  IF m > Len(specs) THEN dist
  ELSE axisLoop(axisPass(dist, front, pop, m, specs[m].sense), front, pop, specs, m + 1)

\* the crowding slots written from the distances (134, 171-173)
writeCrowding(front, pop, d) ==
  [p \in 1..Len(pop) |->
     IF p \in Range(front) THEN [pop[p] EXCEPT !.crowding = Some(d[pop[p].id])] ELSE pop[p]]

crowdingReturn(front, pop, d) == [distances |-> d, pop |-> writeCrowding(front, pop, d)]

\* crowdingDistance (117-176): [distances |-> the returned map,
\* pop |-> the population with the crowding slots written]
crowdingDistance(front, pop, specs) ==
  IF Len(front) = 0 THEN [distances |-> <<>>, pop |-> pop]
  ELSE IF Len(front) <= 2
  THEN crowdingReturn(front, pop, [id \in {pop[front[i]].id : i \in 1..Len(front)} |-> Infinity])
  ELSE crowdingReturn(front, pop,
                      axisLoop([id \in {pop[front[i]].id : i \in 1..Len(front)} |-> Zero],
                               front, pop, specs, 1))

\* the position drawn by population[Math.floor(Math.random() * population.length)]
\* for a draw of r tenths (183-184)
drawIndex(len, r) == ((r * len) \div 10) + 1

tournamentWinnerStrictCrowding(pop, a, b) ==
  IF NumGt(rankOrInf(pop[b]), rankOrInf(pop[a])) THEN a
  ELSE IF NumGt(rankOrInf(pop[a]), rankOrInf(pop[b])) THEN b
  ELSE IF NumGt(crowdingOrZero(pop[a]), crowdingOrZero(pop[b])) THEN a ELSE b

\* the comparison of the two drawn genomes (186-196)
tournamentWinner(pop, a, b) ==
  IF NumGt(rankOrInf(pop[b]), rankOrInf(pop[a])) THEN a
  ELSE IF NumGt(rankOrInf(pop[a]), rankOrInf(pop[b])) THEN b
  ELSE IF NumGeq(crowdingOrZero(pop[a]), crowdingOrZero(pop[b])) THEN a ELSE b

\* tournamentSelect (182-197) for the two draws ra, rb: the winner's position
tournamentSelect(pop, ra, rb) ==
  tournamentWinner(pop, drawIndex(Len(pop), ra), drawIndex(Len(pop), rb))

crowdingLtAscending(front, pop) ==
  {<<a, b>> \in Range(front) \X Range(front) :
     NumGt(crowdingOrZero(pop[b]), crowdingOrZero(pop[a]))}

\* the comparator of the partial front's sort (222): negative when a goes first
crowdingLt(front, pop) ==
  {<<a, b>> \in Range(front) \X Range(front) :
     NumGt(crowdingOrZero(pop[a]), crowdingOrZero(pop[b]))}

\* crowdingDistance on every front in turn (210-212)
RECURSIVE crowdAll(_, _, _)
crowdAll(fronts, pop, specs) ==
  IF fronts = <<>> THEN pop
  ELSE crowdAll(Tail(fronts), crowdingDistance(Head(fronts), pop, specs).pop, specs)

\* the loop that fills selected (217-227)
RECURSIVE fillFronts(_, _, _, _)
fillFronts(fronts, selected, pop, targetSize) ==
  IF fronts = <<>> THEN selected
  ELSE IF Len(selected) + Len(Head(fronts)) <= targetSize
  THEN fillFronts(Tail(fronts), selected \o Head(fronts), pop, targetSize)
  ELSE selected \o Slice(stableSort(Head(fronts), crowdingLt(Head(fronts), pop)),
                         targetSize - Len(selected))

selectReturn(fronts, crowded, targetSize) ==
  [selected |-> fillFronts(fronts, <<>>, crowded, targetSize),
   fronts |-> fronts,
   pop |-> crowded]

\* nsga2Select once the population is sorted (210-229)
selectFrom(sorted, specs, targetSize) ==
  selectReturn(sorted.fronts, crowdAll(sorted.fronts, sorted.pop, specs), targetSize)

\* nsga2Select (202-230) when the sort does not throw:
\* [selected |-> positions of the returned genomes, fronts |-> the fronts,
\*  pop |-> the population with rank and crowding slots written]
nsga2Select(pop, specs, targetSize) ==
  selectFrom(fastNonDominatedSort(pop, specs), specs, targetSize)

\* ------------------------------------------------------------ hilbert.ts
\* A state is a sequence of complex numbers [re, im] in hundredths.

\* Math.sqrt, rounded to the nearest integer; the integer part is found by
\* Newton's iteration from x
RECURSIVE sqrtFrom(_, _)
sqrtFrom(n, x) ==
  IF (x + n \div x) \div 2 >= x THEN x ELSE sqrtFrom(n, (x + n \div x) \div 2)

sqrtRound(n, r) == IF n - r * r > (r + 1) * (r + 1) - n THEN r + 1 ELSE r

Sqrt(n) == IF n <= 0 THEN 0 ELSE sqrtRound(n, sqrtFrom(n, n))

\* a / b rounded to the nearest integer, b > 0
RoundDiv(a, b) ==
  IF a >= 0 THEN (2 * a + b) \div (2 * b) ELSE -((2 * (-a) + b) \div (2 * b))

zeroState(dim) == [i \in 1..dim |-> [re |-> 0, im |-> 0]]

\* normSquared (29-31), in units of 1e-4
RECURSIVE normSquared(_)
normSquared(state) ==
  IF state = <<>> THEN 0
  ELSE Head(state).re * Head(state).re + Head(state).im * Head(state).im
       + normSquared(Tail(state))

\* norm (36-38), in hundredths
norm(state) == Sqrt(normSquared(state))

\* normalize (43-51); n < 1e-12 is n = 0 at this resolution
normalize(state) ==
  LET n == norm(state) IN
  IF n < 1 THEN zeroState(Len(state))
  ELSE [i \in 1..Len(state) |->
          [re |-> RoundDiv(state[i].re * 100, n), im |-> RoundDiv(state[i].im * 100, n)]]

\* spectralSync (119-140) reads state[i] for i < states[0].length of every
\* state: reading past the end of a shorter state is a TypeError
spectralSyncThrows(states) ==
  /\ Len(states) > 0
  /\ \E k \in 1..Len(states) : Len(states[k]) < Len(states[1])

RECURSIVE sumComponent(_, _, _)
sumComponent(states, i, part) ==
  IF states = <<>> THEN 0
  ELSE (IF part = "re" THEN Head(states)[i].re ELSE Head(states)[i].im)
       + sumComponent(Tail(states), i, part)

\* spectralSync (119-140) when it does not throw
spectralSync(states) ==
  IF Len(states) = 0 THEN <<>>
  ELSE LET dim == Len(states[1])
           n == Len(states)
           avgState == [i \in 1..dim |->
                          [re |-> RoundDiv(sumComponent(states, i, "re"), n),
                           im |-> RoundDiv(sumComponent(states, i, "im"), n)]]
       IN normalize(avgState)

\* innerProduct (56-71) and stateDistance (76-87) throw 'States must have same
\* dimension' when the lengths differ
dimensionThrows(a, b) == Len(a) # Len(b)

\* innerProduct (56-71) when it does not throw, in units of 1e-4
RECURSIVE innerProduct(_, _)
innerProduct(a, b) ==
  IF a = <<>> THEN [re |-> 0, im |-> 0]
  ELSE LET rest == innerProduct(Tail(a), Tail(b)) IN
       [re |-> Head(a).re * Head(b).re + Head(a).im * Head(b).im + rest.re,
        im |-> Head(a).re * Head(b).im - Head(a).im * Head(b).re + rest.im]

\* stateDistance (76-87) when it does not throw, in hundredths
stateDistance(a, b) ==
  norm([i \in 1..Len(a) |-> [re |-> a[i].re - b[i].re, im |-> a[i].im - b[i].im]])

\* the magnitudes |z_i| of learningEnergy (152), in hundredths
mags(state) == [i \in 1..Len(state) |-> Sqrt(state[i].re * state[i].re + state[i].im * state[i].im)]

\* learningEnergy (146-157): [nan, v]; on the empty state 0/0 makes it NaN
learningEnergy(state) ==
  IF Len(state) = 0 THEN [nan |-> TRUE, v |-> 0]
  ELSE LET m == mags(state)
           len == Len(state)
           sum == SeqSum(m)
           \* sum over i of (len * m_i - sum)^2 = len^2 * sum of (m_i - avg)^2
           sq == SeqSum([i \in 1..len |-> (len * m[i] - sum) * (len * m[i] - sum)])
           variance == RoundDiv(sq, len * len * len * 100)
       IN [nan |-> FALSE, v |-> Abs(norm(state) - 100) + RoundDiv(variance, 10)]

\* whether learningEnergy is exactly zero: unit norm and equal magnitudes
energyIsZero(state) ==
  /\ Len(state) > 0
  /\ norm(state) = 100
  /\ \A i, j \in 1..Len(state) : mags(state)[i] = mags(state)[j]

\* isStable (162-179) draws 10 random perturbations and answers false when
\* one of them has an energy below the state's.  The outcomes it can have:
\* no perturbation can be below an energy of zero, NaN compares false, and
\* epsilon = 0 perturbs nothing; otherwise either answer can come out.
isStableOutcomes(state, epsilon) ==
  IF learningEnergy(state).nan \/ energyIsZero(state) \/ epsilon = 0
  THEN {TRUE} ELSE BOOLEAN

\* -------------------------------------------------------------- agent.ts
\* Tags are tuples: <<"genesis">>, <<"clone-from", id>>, <<"crossover:gen", n>>,
\* <<"mutation:gen", n>> in a lineage; <<"init">>, <<"clone">>,
\* <<"crossover", id1, id2>>, <<"mutation">> in a provenance trail.

\* createAgent (145-177)
createAgent(id, kind, stateDim) ==
  [id |-> id,
   kind |-> kind,
   generation |-> 0,
   perception |-> [state |-> zeroState(stateDim),
                   uncertainty |-> 100,
                   provenance |-> << <<"init">> >>],
   reasoning |-> [knowledge |-> <<>>, goals |-> <<>>],
   coordination |-> [tools |-> <<>>, memory |-> <<>>, decisions |-> <<>>, partners |-> <<>>],
   objectives |-> [values |-> <<0, 0, 0, 0, 0, 0>>],
   proof |-> Undefined,
   lineage |-> << <<"genesis">> >>,
   metadata |-> <<>>]

\* cloneAgent (182-209) with a new id given: every other field, the proof
\* slot included, is copied by the spread
cloneAgent(agent, newId) ==
  [agent EXCEPT
     !.id = newId,
     !.perception.provenance = Append(@, <<"clone">>),
     !.lineage = Append(@, <<"clone-from", agent.id>>)]

\* addFact (214-216)
addFact(agent, fact) ==
  [agent EXCEPT !.reasoning.knowledge = Append(@, [type |-> "fact", content |-> fact])]

\* addTool (221-223)
addTool(agent, tool) == [agent EXCEPT !.coordination.tools = Append(@, tool)]

\* recordDecision (228-230)
recordDecision(agent, decision) ==
  [agent EXCEPT !.coordination.decisions = Append(@, decision)]

updatePerceptionOverwrites(agent, newState, provenance) ==
  [agent EXCEPT !.perception.state = newState,
                !.perception.provenance = <<provenance>>]

\* updatePerception (235-243)
updatePerception(agent, newState, provenance) ==
  [agent EXCEPT !.perception.state = newState,
                !.perception.provenance = Append(@, provenance)]

\* sum of the tool costs (proof-gate.ts 159, evolution.ts 83)
toolCostOf(agent) ==
  SeqSum([i \in 1..Len(agent.coordination.tools) |-> agent.coordination.tools[i].cost])

\* --------------------------------------------------------- proof-gate.ts
\* A law is [name, idx, sense, threshold]: its evaluate returns the
\* objective value at (0-based) position idx, as both default laws do.

\* DEFAULT_PROOF_GATE (58-77)
DEFAULT_PROOF_GATE ==
  [laws |-> << [name |-> "min-gain", idx |-> 0, sense |-> "max", threshold |-> Some(10)],
               [name |-> "max-latency", idx |-> 1, sense |-> "min", threshold |-> Some(100000)] >>,
   maxPrivacyLoss |-> 100,
   maxCost |-> 1000,
   requireStability |-> TRUE,
   stabilityEpsilon |-> 10]

lawEvaluate(law, agent) == agent.objectives.values[law.idx + 1]

\* the checks pushed for the laws (90-105)
lawChecks(agent, config) ==
  [i \in 1..Len(config.laws) |->
     LET law == config.laws[i]
         value == lawEvaluate(law, agent)
     IN [name |-> law.name, passed |-> satisfiesLaw(law, value),
         value |-> Some([nan |-> FALSE, v |-> value]), threshold |-> law.threshold]]

\* the privacy-loss check (108-122)
privacyCheck(agent, config) ==
  LET privacyLoss == agent.objectives.values[5] IN
  [name |-> "privacy-loss", passed |-> privacyLoss <= config.maxPrivacyLoss,
   value |-> Some([nan |-> FALSE, v |-> privacyLoss]), threshold |-> Some(config.maxPrivacyLoss)]

\* the cost check (125-139)
costCheck(agent, config) ==
  LET cost == agent.objectives.values[6] IN
  [name |-> "cost", passed |-> cost <= config.maxCost,
   value |-> Some([nan |-> FALSE, v |-> cost]), threshold |-> Some(config.maxCost)]

\* the stability check (142-156); stable is the answer isStable gave
stabilityCheck(agent, config, stable) ==
  [name |-> "stability", passed |-> stable,
   value |-> Some(learningEnergy(agent.perception.state)), threshold |-> Undefined]

\* the tool-budget check (159-172); maxCost * 0.5
toolBudgetCheck(agent, config) ==
  LET toolCost == toolCostOf(agent) IN
  [name |-> "tool-budget", passed |-> 2 * toolCost <= config.maxCost,
   value |-> Some([nan |-> FALSE, v |-> toolCost]),
   threshold |-> Some(config.maxCost \div 2)]

\* the checks in the order verifyAgent pushes them (86-172)
gateChecks(agent, config, stable) ==
  lawChecks(agent, config)
  \o << privacyCheck(agent, config), costCheck(agent, config) >>
  \o (IF config.requireStability THEN << stabilityCheck(agent, config, stable) >> ELSE <<>>)
  \o << toolBudgetCheck(agent, config) >>

lastCheckPassed(checks) == checks[Len(checks)].passed

\* passed (87) stays true unless some check fails (104, 122, 139, 155, 172)
allPassed(checks) == \A i \in 1..Len(checks) : checks[i].passed

\* the record returned (174-179)
verifyReturn(checks, passed) ==
  [passed |-> passed,
   reason |-> IF passed THEN "All checks passed" ELSE "Some checks failed",
   checks |-> checks]

verifyChecked(checks) == verifyReturn(checks, allPassed(checks))

\* verifyAgent (82-180); stable is the answer isStable gives when asked.
\* The message of a check repeats its other fields and is left out.
verifyAgent(agent, config, stable) == verifyChecked(gateChecks(agent, config, stable))

\* JSON.stringify(result.checks) (206): per check the list of its
\* key/value pairs; an undefined field is dropped and NaN becomes null
jsonNumber(x) == IF x.nan THEN [null |-> TRUE, v |-> 0] ELSE [null |-> FALSE, v |-> x.v]

jsonChecks(checks) ==
  [i \in 1..Len(checks) |->
     << <<"name", checks[i].name>>, <<"passed", checks[i].passed>> >>
     \o (IF IsDefined(checks[i].value)
         THEN << <<"value", jsonNumber(checks[i].value[1])>> >> ELSE <<>>)
     \o (IF IsDefined(checks[i].threshold)
         THEN << <<"threshold", checks[i].threshold[1]>> >> ELSE <<>>)]

\* the proof bundle attached to a passing agent (204-209)
proofBundle(config, result) ==
  [spec |-> <<"Verified against", Len(config.laws), "laws + privacy/cost/stability">>,
   proof |-> jsonChecks(result.checks),
   verified |-> TRUE]

gateLoopWritesNoProof(population, config, result) ==
  [passed |-> SelectSeq(Positions(population), LAMBDA i : result[i].passed),
   failed |-> SelectSeq(Positions(population), LAMBDA i : ~result[i].passed),
   results |-> [id \in Ids(population) |->
                  result[CHOOSE i \in 1..Len(population) : population[i].id = id]],
   population |-> population]

gateLoopFailsEveryone(population, config, result) ==
  [passed |-> SelectSeq(Positions(population), LAMBDA i : result[i].passed),
   failed |-> Positions(population),
   results |-> [id \in Ids(population) |->
                  result[CHOOSE i \in 1..Len(population) : population[i].id = id]],
   population |-> [i \in 1..Len(population) |->
                     IF result[i].passed
                     THEN [population[i] EXCEPT !.proof = Some(proofBundle(config, result[i]))]
                     ELSE population[i]]]

gateLoopProvesEveryone(population, config, result) ==
  [passed |-> SelectSeq(Positions(population), LAMBDA i : result[i].passed),
   failed |-> SelectSeq(Positions(population), LAMBDA i : ~result[i].passed),
   results |-> [id \in Ids(population) |->
                  result[CHOOSE i \in 1..Len(population) : population[i].id = id]],
   population |-> [i \in 1..Len(population) |->
                     [population[i] EXCEPT !.proof = Some(proofBundle(config, result[i]))]]]

\* the loop of applyProofGate (198-216), result[i] being what verifyAgent
\* returned for the i-th agent; results is keyed by id, a later agent with
\* the same id overwriting an earlier one
gateLoop(population, config, result) ==
  [passed |-> SelectSeq(Positions(population), LAMBDA i : result[i].passed),
   failed |-> SelectSeq(Positions(population), LAMBDA i : ~result[i].passed),
   results |-> [id \in Ids(population) |->
                  result[CHOOSE i \in 1..Len(population) :
                           /\ population[i].id = id
                           /\ \A j \in (i + 1)..Len(population) : population[j].id # id]],
   population |-> [i \in 1..Len(population) |->
                     IF result[i].passed
                     THEN [population[i] EXCEPT !.proof = Some(proofBundle(config, result[i]))]
                     ELSE population[i]]]

\* applyProofGate (186-217); stable[i] is the answer isStable gives for the
\* i-th agent.  passed and failed hold positions in the population, whose
\* passing members have the proof slot written.
applyProofGate(population, config, stable) ==
  gateLoop(population, config,
           [i \in 1..Len(population) |-> verifyAgent(population[i], config, stable[i])])

\* generateProofCertificate (222-247): the lines joined by '\n'.  The
\* timestamp line renders a time of day, which is left out.
generateProofCertificate(agent) ==
  IF ~IsDefined(agent.proof) THEN <<"No proof certificate available">>
  ELSE << "=== PROOF CERTIFICATE ===",
          <<"Agent: ", agent.id>>,
          <<"Kind: ", agent.kind>>,
          <<"Generation: ", agent.generation>>,
          <<"Verified: ", agent.proof[1].verified>>,
          "", "Spec:", agent.proof[1].spec,
          "", "Proof:", agent.proof[1].proof,
          "", "Lineage:" >>
       \o [k \in 1..Len(agent.lineage) |-> <<"  - ", agent.lineage[k]>>]
       \o << "========================" >>

\* ----------------------------------------------------------- evolution.ts
\* DEFAULT_OBJECTIVES (objectives.ts 34-41)
DEFAULT_OBJECTIVES ==
  << [name |-> "gain", sense |-> "max"],
     [name |-> "latency", sense |-> "min"],
     [name |-> "engagement", sense |-> "max"],
     [name |-> "fairness", sense |-> "max"],
     [name |-> "privacyLoss", sense |-> "min"],
     [name |-> "cost", sense |-> "min"] >>

evolutionGateOfProofGateDefaults == DEFAULT_PROOF_GATE

\* the proofGate of DEFAULT_EVOLUTION_CONFIG (35-39)
DEFAULT_EVOLUTION_GATE ==
  [DEFAULT_PROOF_GATE EXCEPT !.requireStability = FALSE, !.maxCost = 5000]

\* evaluateAgent (74-103): the objective vector written after the timer
evaluateAgent(agent) ==
  LET stateNorm == norm(agent.perception.state)
      toolCost == toolCostOf(agent)
      knowledgeSize == Len(agent.reasoning.knowledge)
  IN [agent EXCEPT !.objectives.values =
        << Min(100, 20 + knowledgeSize * 10 + RoundDiv(Abs(100 - stateNorm) * 20, 100)),
           5000 + knowledgeSize * 1000 + toolCost * 5,
           Min(100, Len(agent.coordination.decisions) * 10),
           IF toolCost > 0 THEN Min(100, RoundDiv(10000, 100 + Abs(toolCost - 100))) ELSE 50,
           agent.perception.uncertainty,
           toolCost + knowledgeSize * 10 >>]

\* crossoverAgents (108-139) throws when spectralSync does
crossoverThrows(parent1, parent2) ==
  spectralSyncThrows(<<parent1.perception.state, parent2.perception.state>>)

crossoverKeepsKnowledge(parent1, parent2, childId) ==
  LET child0 == cloneAgent(parent1, childId)
      child1 == [child0 EXCEPT !.generation = Max(parent1.generation, parent2.generation) + 1]
      syncedState == spectralSync(<<parent1.perception.state, parent2.perception.state>>)
      child2 == updatePerception(child1, syncedState, <<"crossover", parent1.id, parent2.id>>)
  IN [child2 EXCEPT
        !.reasoning.knowledge = parent1.reasoning.knowledge
                                \o Slice(parent2.reasoning.knowledge, 2),
        !.coordination.tools = Slice(parent1.coordination.tools, 1)
                               \o Slice(parent2.coordination.tools, 1),
        !.lineage = Append(@, <<"crossover:gen", child1.generation>>)]

\* crossoverAgents (108-139)
crossoverAgents(parent1, parent2, childId) ==
  LET child0 == cloneAgent(parent1, childId)
      child1 == [child0 EXCEPT !.generation = Max(parent1.generation, parent2.generation) + 1]
      syncedState == spectralSync(<<parent1.perception.state, parent2.perception.state>>)
      child2 == updatePerception(child1, syncedState, <<"crossover", parent1.id, parent2.id>>)
  IN [child2 EXCEPT
        !.reasoning.knowledge = Slice(parent1.reasoning.knowledge, 2)
                                \o Slice(parent2.reasoning.knowledge, 2),
        !.coordination.tools = Slice(parent1.coordination.tools, 1)
                               \o Slice(parent2.coordination.tools, 1),
        !.lineage = Append(@, <<"crossover:gen", child1.generation>>)]

\* (Math.random() - 0.5) * 0.2 for a draw of r tenths, in hundredths (149-150)
mutationNoise(r) == 2 * r - 10

mutateAlways(agent, rate, draws) ==
  LET state == agent.perception.state
      perturbedState == [i \in 1..Len(state) |->
                           [re |-> state[i].re + mutationNoise(draws.noise[i].re),
                            im |-> state[i].im + mutationNoise(draws.noise[i].im)]]
      a1 == updatePerception(agent, normalize(perturbedState), <<"mutation">>)
      a2 == IF draws.pop < 3 /\ Len(a1.reasoning.knowledge) > 0
            THEN [a1 EXCEPT !.reasoning.knowledge = SubSeq(@, 1, Len(@) - 1)]
            ELSE a1
      a3 == IF draws.push < 3
            THEN [a2 EXCEPT !.reasoning.knowledge =
                    Append(@, [type |-> "fact",
                               content |-> <<"learned-fact-gen", agent.generation>>])]
            ELSE a2
  IN [a3 EXCEPT !.lineage = Append(@, <<"mutation:gen", agent.generation>>)]

\* mutateAgent (144-168).  rate is in tenths; draws = [mutate, noise, pop,
\* push] are the Math.random() results in tenths, noise being one
\* [re, im] pair of draws per state component.
mutateAgent(agent, rate, draws) ==
  IF draws.mutate >= rate THEN agent
  ELSE LET state == agent.perception.state
           perturbedState == [i \in 1..Len(state) |->
                                [re |-> state[i].re + mutationNoise(draws.noise[i].re),
                                 im |-> state[i].im + mutationNoise(draws.noise[i].im)]]
           a1 == updatePerception(agent, normalize(perturbedState), <<"mutation">>)
           a2 == IF draws.pop < 3 /\ Len(a1.reasoning.knowledge) > 0
                 THEN [a1 EXCEPT !.reasoning.knowledge = SubSeq(@, 1, Len(@) - 1)]
                 ELSE a1
           a3 == IF draws.push < 3
                 THEN [a2 EXCEPT !.reasoning.knowledge =
                         Append(@, [type |-> "fact",
                                    content |-> <<"learned-fact-gen", agent.generation>>])]
                 ELSE a2
       IN [a3 EXCEPT !.lineage = Append(@, <<"mutation:gen", agent.generation>>)]

\* ------------------------------------------------------------ the driver
VARIABLES
  cfg,         \* the EvolutionConfig evolve was called with
  pc,          \* where evolve is: "evaluate", "reproduce", "final-evaluate", "done", "error"
  gen,         \* the loop counter of evolve
  population,  \* the current population
  evaluated,   \* positions whose evaluateAgent call has completed (Promise.all)
  stats,       \* the snapshots pushed so far
  genomes,     \* the genomes of the passed agents, rank and crowding as last written
  nextGen,     \* the next generation under construction
  halted,      \* <<k>> once the loop broke at generation k with nobody passing
  result,      \* what evolve returned, once pc = "done"
  fnOp,        \* library calls made outside evolve: the operation applied
  fnIn,        \* ... its arguments
  fnOut        \* ... what it returned

vars == <<cfg, pc, gen, population, evaluated, stats, genomes, nextGen, halted, result,
          fnOp, fnIn, fnOut>>

driverVars == <<cfg, pc, gen, population, evaluated, stats, genomes, nextGen, halted, result>>

fnVars == <<fnOp, fnIn, fnOut>>

\* proof gates the driver is configured with
DriverGates ==
  { DEFAULT_EVOLUTION_GATE,
    [DEFAULT_EVOLUTION_GATE EXCEPT !.requireStability = TRUE],
    [DEFAULT_EVOLUTION_GATE EXCEPT !.maxCost = 0] }

\* objective lists the driver is configured with
DriverObjectives == { DEFAULT_OBJECTIVES, SubSeq(DEFAULT_OBJECTIVES, 1, 2), <<>> }

\* the population size of the short runs
ShortRunPopulation == 3

\* the population size of the runs without crossover and mutation
WideRunPopulation == 4

\* configurations evolve is called with; the rates are those of
\* DEFAULT_EVOLUTION_CONFIG (40-41), in tenths.  Runs with a population of
\* ShortRunPopulation are short ones: of at most one generation, or of two
\* generations under the default objectives and gate.  Runs with a
\* population of WideRunPopulation have both rates at zero, so every child
\* is an unmutated clone, and a gate that requires stability, so fewer than
\* half of the population can pass.
Configs ==
  [populationSize : 0..MaxPopulation,
   generations : 0..MaxGenerations,
   objectives : DriverObjectives,
   proofGate : DriverGates,
   crossoverRate : {7},
   mutationRate : {2},
   stateDimension : 0..MaxDimension]
  \cup
  [populationSize : {ShortRunPopulation},
   generations : 0..1,
   objectives : DriverObjectives,
   proofGate : DriverGates,
   crossoverRate : {7},
   mutationRate : {2},
   stateDimension : 0..MaxDimension]
  \cup
  [populationSize : {ShortRunPopulation},
   generations : {2},
   objectives : {DEFAULT_OBJECTIVES},
   proofGate : {DEFAULT_EVOLUTION_GATE},
   crossoverRate : {7},
   mutationRate : {2},
   stateDimension : 0..MaxDimension]
  \cup
  [populationSize : {WideRunPopulation},
   generations : {2},
   objectives : {DEFAULT_OBJECTIVES},
   proofGate : {[DEFAULT_EVOLUTION_GATE EXCEPT !.requireStability = TRUE]},
   crossoverRate : {0},
   mutationRate : {0},
   stateDimension : {MaxDimension}]

\* the initial population (178-181)
initialPopulation(config) ==
  [i \in 1..config.populationSize |->
     createAgent(<<"agent-gen", 0, i - 1>>, "tutor", config.stateDimension)]

noResult == [finalPopulation |-> <<>>, paretoFront |-> <<>>, stats |-> <<>>]

DriverIdle ==
  /\ cfg = [populationSize |-> 0, generations |-> 0, objectives |-> <<>>,
            proofGate |-> DEFAULT_EVOLUTION_GATE, crossoverRate |-> 7,
            mutationRate |-> 2, stateDimension |-> 0]
  /\ pc = "idle"
  /\ gen = 0
  /\ population = <<>>
  /\ evaluated = {}
  /\ stats = <<>>
  /\ genomes = <<>>
  /\ nextGen = <<>>
  /\ halted = Undefined
  /\ result = noResult

FnIdle == fnOp = "none" /\ fnIn = <<>> /\ fnOut = <<>>

\* evolve (173-184): the state when the loop is first entered
Init ==
  /\ cfg \in Configs
  /\ pc = IF 0 < cfg.generations THEN "evaluate" ELSE "final-evaluate"
  /\ gen = 0
  /\ population = initialPopulation(cfg)
  /\ evaluated = {}
  /\ stats = <<>>
  /\ genomes = <<>>
  /\ nextGen = <<>>
  /\ halted = Undefined
  /\ result = noResult
  /\ FnIdle

\* one evaluateAgent call of Promise.all completes (188, 260)
Evaluate(i) ==
  /\ pc \in {"evaluate", "final-evaluate"}
  /\ i \in 1..Len(population)
  /\ i \notin evaluated
  /\ population' = [population EXCEPT ![i] = evaluateAgent(@)]
  /\ evaluated' = evaluated \cup {i}
  /\ UNCHANGED <<cfg, pc, gen, stats, genomes, nextGen, halted, result, fnVars>>

\* the answers isStable can give for each agent of a population
stableOutcomes(pop, gate) ==
  [i \in 1..Len(pop) |->
     IF gate.requireStability
     THEN isStableOutcomes(pop[i].perception.state, gate.stabilityEpsilon)
     ELSE {TRUE}]

stableFrom(outcomes) ==
  {f \in [DOMAIN outcomes -> BOOLEAN] : \A i \in DOMAIN outcomes : f[i] \in outcomes[i]}

stableChoices(pop, gate) == stableFrom(stableOutcomes(pop, gate))

\* the genomes built from the passed agents (200-204, 263-267); agent is the
\* position of the agent in the gated population
genomesOf(pop, passed) ==
  [i \in 1..Len(passed) |->
     [id |-> pop[passed[i]].id, objectives |-> pop[passed[i]].objectives,
      rank |-> Undefined, crowding |-> Undefined, agent |-> passed[i]]]

\* avgObjectives (212-215): one mean per configured axis; past the end of
\* the objective vectors the sum is NaN
avgObjectives(pop, passed, objectives) ==
  [i \in 1..Len(objectives) |->
     IF \E k \in 1..Len(passed) : i > Len(pop[passed[k]].objectives.values)
     THEN [nan |-> TRUE, v |-> 0]
     ELSE [nan |-> FALSE,
           v |-> RoundDiv(SeqSum([k \in 1..Len(passed) |-> pop[passed[k]].objectives.values[i]]),
                          Len(passed))]]

snapshotNextGeneration(g, pop, gate, paretoFront, objectives) ==
  [generation |-> g + 1,
   populationSize |-> Len(pop),
   paretoFrontSize |-> Len(paretoFront),
   passedProofGate |-> Len(gate.passed),
   failedProofGate |-> Len(gate.failed),
   avgObjectives |-> avgObjectives(gate.population, gate.passed, objectives),
   bestObjectives |-> gate.population[gate.passed[1]].objectives.values]

\* the snapshot pushed at 219-228; paretoFront holds positions in the genomes,
\* which are in the order of the passed list
snapshot(g, pop, gate, paretoFront, objectives) ==
  [generation |-> g,
   populationSize |-> Len(pop),
   paretoFrontSize |-> Len(paretoFront),
   passedProofGate |-> Len(gate.passed),
   failedProofGate |-> Len(gate.failed),
   avgObjectives |-> avgObjectives(gate.population, gate.passed, objectives),
   bestObjectives |->
     (IF Len(paretoFront) > 0 THEN gate.population[gate.passed[paretoFront[1]]]
      ELSE gate.population[gate.passed[1]]).objectives.values]

\* where the loop goes after generation g (184, 257)
afterGeneration(g, config) == IF g + 1 < config.generations THEN "evaluate" ELSE "final-evaluate"

\* the members of a population at the given positions, in that order
pick(pop, positions) == [k \in 1..Len(positions) |-> pop[positions[k]]]

\* fronts[0] || [] (207, 270)
firstFront(fronts) == IF fronts = <<>> THEN <<>> ELSE fronts[1]

StartReproductionWithAllPassed(gate, sel) ==
  /\ genomes' = sel.pop
  /\ nextGen' = pick(gate.population, gate.passed)
  /\ population' = gate.population
  /\ pc' = "reproduce"
  /\ UNCHANGED <<gen, evaluated>>

\* the survivors start the next generation (232-234)
StartReproduction(gate, sel) ==
  /\ genomes' = sel.pop
  /\ nextGen' = [k \in 1..Len(sel.selected) |-> gate.population[sel.pop[sel.selected[k]].agent]]
  /\ population' = gate.population
  /\ pc' = "reproduce"
  /\ UNCHANGED <<gen, evaluated>>

\* the final generation keeps the passed agents (255) and the loop ends
KeepPassed(gate, sorted) ==
  /\ population' = pick(gate.population, gate.passed)
  /\ genomes' = sorted.pop
  /\ gen' = gen + 1
  /\ pc' = afterGeneration(gen, cfg)
  /\ evaluated' = {}
  /\ UNCHANGED nextGen

\* the snapshot is pushed, then selection or the end of the loop (207-256)
AfterSort(gate, sorted) ==
  /\ stats' = Append(stats, snapshot(gen, population, gate, firstFront(sorted.fronts),
                                     cfg.objectives))
  /\ halted' = halted
  /\ IF gen < cfg.generations - 1
     THEN StartReproduction(gate, nsga2Select(sorted.pop, cfg.objectives,
                                              cfg.populationSize \div 2))
     ELSE KeepPassed(gate, sorted)

\* the Pareto sort of the passed agents' genomes (200-206); dominates may throw
AfterGenomes(gate, gs) ==
  IF sortThrows(gs, cfg.objectives)
  THEN /\ population' = gate.population
       /\ pc' = "error"
       /\ UNCHANGED <<gen, stats, genomes, nextGen, halted, evaluated>>
  ELSE AfterSort(gate, fastNonDominatedSort(gs, cfg.objectives))

\* what follows the gate (192-206): the break when nobody passed
AfterGate(gate) ==
  IF Len(gate.passed) = 0
  THEN /\ population' = gate.population
       /\ pc' = "final-evaluate"
       /\ halted' = Some(gen)
       /\ evaluated' = {}
       /\ UNCHANGED <<gen, stats, genomes, nextGen>>
  ELSE AfterGenomes(gate, genomesOf(gate.population, gate.passed))

GenerationBodyWithoutBarrier ==
  /\ pc = "evaluate"
  /\ \E stable \in stableChoices(population, cfg.proofGate) :
       AfterGate(applyProofGate(population, cfg.proofGate, stable))
  /\ UNCHANGED <<cfg, result, fnVars>>

\* the loop body from the gate to the start of reproduction (191-256), run
\* when every evaluateAgent call of this generation has completed
GenerationBody ==
  /\ pc = "evaluate"
  /\ evaluated = 1..Len(population)
  /\ \E stable \in stableChoices(population, cfg.proofGate) :
       AfterGate(applyProofGate(population, cfg.proofGate, stable))
  /\ UNCHANGED <<cfg, result, fnVars>>

\* the draws mutateAgent makes on a state of dimension dim
MutationDraws(dim) ==
  [mutate : RandomOutcomes,
   noise : [1..dim -> [re : RandomOutcomes, im : RandomOutcomes]],
   pop : RandomOutcomes,
   push : RandomOutcomes]

\* the child is pushed (250); after the last child the next generation
\* replaces the population (253)
PushChild(pushed) ==
  IF Len(pushed) < cfg.populationSize
  THEN /\ nextGen' = pushed
       /\ UNCHANGED <<population, gen, pc, evaluated>>
  ELSE /\ population' = pushed
       /\ nextGen' = <<>>
       /\ gen' = gen + 1
       /\ pc' = afterGeneration(gen, cfg)
       /\ evaluated' = {}

\* mutateAgent on the new child, for every outcome of its draws (249)
MutateChild(child) ==
  \E mutated \in {mutateAgent(child, cfg.mutationRate, draws) :
                    draws \in MutationDraws(Len(child.perception.state))} :
     PushChild(Append(nextGen, mutated))

makeChildOfGenerationZero(parent1, parent2, doCrossover, childId) ==
  IF doCrossover
  THEN crossoverAgents(parent1, parent2, childId)
  ELSE [cloneAgent(parent1, childId) EXCEPT !.generation = 0]

\* crossover or clone (241-247)
makeChild(parent1, parent2, doCrossover, childId) ==
  IF doCrossover
  THEN crossoverAgents(parent1, parent2, childId)
  ELSE [cloneAgent(parent1, childId) EXCEPT !.generation = gen + 1]

childIdOfFirstGeneration(g, n) == <<"agent-gen", 0, n>>

\* the id `agent-gen${gen + 1}-${nextGen.length}` of a child (243, 245)
childId(g, n) == <<"agent-gen", g + 1, n>>

\* one round of the while loop (237-251), for every outcome of the draws of
\* the two tournaments and of the crossover decision
Reproduce ==
  /\ pc = "reproduce"
  /\ Len(nextGen) < cfg.populationSize
  /\ \E w1, w2 \in {tournamentSelect(genomes, ra, rb) : ra, rb \in RandomOutcomes} :
     \E doCrossover \in {rc < cfg.crossoverRate : rc \in RandomOutcomes} :
        MutateChild(makeChild(population[genomes[w1].agent], population[genomes[w2].agent],
                              doCrossover, childId(gen, Len(nextGen))))
  /\ UNCHANGED <<cfg, stats, genomes, halted, result, fnVars>>

evolveResultOfPopulation(gate, front0) ==
  [finalPopulation |-> pick(gate.population, gate.passed),
   paretoFront |-> [k \in 1..Len(front0) |-> gate.population[front0[k]]],
   stats |-> stats]

\* the value returned (277-282)
evolveResult(gate, front0) ==
  [finalPopulation |-> pick(gate.population, gate.passed),
   paretoFront |-> [k \in 1..Len(front0) |-> gate.population[gate.passed[front0[k]]]],
   stats |-> stats]

FinalSorted(gate, sorted) ==
  /\ pc' = "done"
  /\ genomes' = sorted.pop
  /\ result' = evolveResult(gate, firstFront(sorted.fronts))

FinalGenomes(gate, gs) ==
  IF sortThrows(gs, cfg.objectives)
  THEN pc' = "error" /\ UNCHANGED <<genomes, result>>
  ELSE FinalSorted(gate, fastNonDominatedSort(gs, cfg.objectives))

FinalAfterGate(gate) ==
  /\ population' = gate.population
  /\ FinalGenomes(gate, genomesOf(gate.population, gate.passed))

\* the final gate and sort (261-283), run when every evaluateAgent call of
\* the final pass has completed
FinalGate ==
  /\ pc = "final-evaluate"
  /\ evaluated = 1..Len(population)
  /\ \E stable \in stableChoices(population, cfg.proofGate) :
       FinalAfterGate(applyProofGate(population, cfg.proofGate, stable))
  /\ UNCHANGED <<cfg, gen, evaluated, stats, nextGen, halted, fnVars>>

Next ==
  \/ \E i \in 1..Max(Max(MaxPopulation, ShortRunPopulation), WideRunPopulation) : Evaluate(i)
  \/ GenerationBody
  \/ Reproduce
  \/ FinalGate

Spec == Init /\ [][Next]_vars

\* ------------------------------------------- calls of the selector (nsga2.ts)
\* The operations of the selector applied to drawn populations: fnIn is what
\* the call received, fnOut what it returned and wrote, fnOp the call made.

\* objective vectors of the drawn genomes: two axes, and one vector that is
\* too short for the axis list
GenomeVectors == [1..2 -> 0..MaxObj] \cup {<<0>>}

\* a Genome (10-16) as built by the callers: rank and crowding not yet set
newGenome(i, v) ==
  [id |-> <<"g", i>>, objectives |-> [values |-> v],
   rank |-> Undefined, crowding |-> Undefined, agent |-> i]

SelectorPopulations ==
  UNION {{[i \in 1..n |-> newGenome(i, vs[i])] : vs \in [1..n -> GenomeVectors]} :
           n \in 0..MaxGenomes}

\* axis lists mixing the two senses
SelectorSpecs ==
  {<< [name |-> "gain", sense |-> s1], [name |-> "cost", sense |-> s2] >> : s1, s2 \in Senses}

\* the draws of a tournament, in tenths
TournamentDraws == {0, 5, 9}

wellFormed(pop, specs) ==
  \A i \in 1..Len(pop) : Len(pop[i].objectives.values) = Len(specs)

InitSelector ==
  /\ DriverIdle
  /\ fnOp = "none"
  /\ fnIn \in [pop : SelectorPopulations, specs : SelectorSpecs, args : {<<>>}]
  /\ fnOut = <<>>

\* what one call dominates(a, b, specs) does
dominatesCall(a, b, specs) ==
  IF dominatesThrows(a, b, specs) THEN [threw |-> TRUE, value |-> FALSE]
  ELSE [threw |-> FALSE, value |-> dominates(a, b, specs)]

\* dominates on every pair of the drawn genomes
CallDominates ==
  /\ fnOp = "none"
  /\ Len(fnIn.pop) > 0
  /\ fnOp' = "dominates"
  /\ fnOut' = [pq \in (1..Len(fnIn.pop)) \X (1..Len(fnIn.pop)) |->
                 dominatesCall(fnIn.pop[pq[1]], fnIn.pop[pq[2]], fnIn.specs)]
  /\ UNCHANGED <<fnIn, driverVars>>

sortCall(pop, specs) ==
  IF sortThrows(pop, specs) THEN [threw |-> TRUE, fronts |-> <<>>, pop |-> pop]
  ELSE [threw |-> FALSE] @@ fastNonDominatedSort(pop, specs)

\* fastNonDominatedSort on the drawn population
CallSort ==
  /\ fnOp = "none"
  /\ fnOp' = "sort"
  /\ fnOut' = sortCall(fnIn.pop, fnIn.specs)
  /\ UNCHANGED <<fnIn, driverVars>>

\* crowdingDistance on the drawn population taken as one front
CallCrowding ==
  /\ fnOp = "none"
  /\ wellFormed(fnIn.pop, fnIn.specs)
  /\ fnOp' = "crowding"
  /\ fnIn' = [fnIn EXCEPT !.args = Positions(fnIn.pop)]
  /\ fnOut' = crowdingDistance(Positions(fnIn.pop), fnIn.pop, fnIn.specs)
  /\ UNCHANGED driverVars

selectCall(pop, specs, targetSize) ==
  IF sortThrows(pop, specs)
  THEN [threw |-> TRUE, selected |-> <<>>, fronts |-> <<>>, pop |-> pop]
  ELSE [threw |-> FALSE] @@ nsga2Select(pop, specs, targetSize)

\* nsga2Select on the drawn population for a target size
CallSelect(targetSize) ==
  /\ fnOp = "none"
  /\ fnOp' = "select"
  /\ fnIn' = [fnIn EXCEPT !.args = <<targetSize>>]
  /\ fnOut' = selectCall(fnIn.pop, fnIn.specs, targetSize)
  /\ UNCHANGED driverVars

tournamentCall(pop, ra, rb) ==
  [a |-> drawIndex(Len(pop), ra), b |-> drawIndex(Len(pop), rb),
   winner |-> tournamentSelect(pop, ra, rb)]

\* the population a tournament is held on: the drawn one, or the one
\* nsga2Select has left with its rank and crowding slots written
tournamentPopulation == IF fnOp = "none" THEN fnIn.pop ELSE fnOut.pop

\* tournamentSelect for the draws ra and rb
CallTournament(ra, rb) ==
  /\ fnOp \in {"none", "select"}
  /\ fnOp = "select" => ~fnOut.threw
  /\ Len(fnIn.pop) > 0
  /\ fnOp' = "tournament"
  /\ fnIn' = [fnIn EXCEPT !.pop = tournamentPopulation, !.args = <<ra, rb>>]
  /\ fnOut' = tournamentCall(tournamentPopulation, ra, rb)
  /\ UNCHANGED driverVars

NextSelector ==
  \/ CallDominates
  \/ CallSort
  \/ CallCrowding
  \/ \E targetSize \in 0..(MaxGenomes + 1) : CallSelect(targetSize)
  \/ \E ra, rb \in TournamentDraws : CallTournament(ra, rb)

SpecSelector == InitSelector /\ [][NextSelector]_vars

\* ------------------------------------------------ properties of the selector
\* Pareto dominance stated on the objective vectors: u is nowhere worse than
\* v and somewhere better, each axis read under its own sense
axisBetter(x, y, sense) == IF sense = "max" THEN x > y ELSE y > x

ParetoDominates(u, v, specs) ==
  /\ \A i \in 1..Len(specs) : ~axisBetter(v[i], u[i], specs[i].sense)
  /\ \E i \in 1..Len(specs) : axisBetter(u[i], v[i], specs[i].sense)

valuesOf(pop, p) == pop[p].objectives.values

\* the fronts that hold position p
frontsHolding(fronts, p) ==
  {k \in 1..Len(fronts) : \E j \in 1..Len(fronts[k]) : fronts[k][j] = p}

noRepeats(s) == \A i, j \in 1..Len(s) : s[i] = s[j] => i = j

\* C4: on a population with distinct ids and vectors of the configured
\* length fastNonDominatedSort does not throw; every input genome is in
\* exactly one returned front, no returned front is empty, no member of front
\* 0 is dominated by an input genome, every genome's rank slot is the index
\* of its front, and the empty population gives the empty list.
SortPartitionsIntoRankedFronts ==
  (fnOp = "sort" /\ wellFormed(fnIn.pop, fnIn.specs)) =>
     /\ ~fnOut.threw
     /\ Len(fnOut.pop) = Len(fnIn.pop)
     /\ \A p \in 1..Len(fnIn.pop) : Cardinality(frontsHolding(fnOut.fronts, p)) = 1
     /\ \A k \in 1..Len(fnOut.fronts) :
           /\ Len(fnOut.fronts[k]) > 0
           /\ noRepeats(fnOut.fronts[k])
           /\ Range(fnOut.fronts[k]) \subseteq 1..Len(fnIn.pop)
           /\ \A p \in Range(fnOut.fronts[k]) : fnOut.pop[p].rank = <<k - 1>>
     /\ fnOut.fronts # <<>> =>
           \A p \in Range(fnOut.fronts[1]) : \A q \in 1..Len(fnIn.pop) :
              ~ParetoDominates(valuesOf(fnIn.pop, q), valuesOf(fnIn.pop, p), fnIn.specs)
     /\ fnIn.pop = <<>> => fnOut.fronts = <<>>

\* a sort that returned two fronts, the first with two members
SortedIntoTwoFronts ==
  /\ fnOp = "sort"
  /\ wellFormed(fnIn.pop, fnIn.specs)
  /\ Len(fnOut.fronts) = 2
  /\ Len(fnOut.fronts[1]) = 2

\* C29: after fastNonDominatedSort on a population with pairwise distinct
\* ids no genome dominates another genome of the same front, and every
\* genome of a front k >= 1 is dominated by at least one genome of front
\* k - 1: the ranks are the peeling levels of the dominance order.
FrontsArePeelingLevels ==
  (fnOp = "sort" /\ ~fnOut.threw) =>
     /\ \A k \in 1..Len(fnOut.fronts) :
           \A p, q \in Range(fnOut.fronts[k]) :
              p # q => ~ParetoDominates(valuesOf(fnIn.pop, p), valuesOf(fnIn.pop, q), fnIn.specs)
     /\ \A k \in 2..Len(fnOut.fronts) :
           \A q \in Range(fnOut.fronts[k]) :
              \E p \in Range(fnOut.fronts[k - 1]) :
                 ParetoDominates(valuesOf(fnIn.pop, p), valuesOf(fnIn.pop, q), fnIn.specs)

\* a chain of three genomes under axes of both senses, sorted into three fronts
SortedIntoThreeFronts ==
  /\ fnOp = "sort"
  /\ ~fnOut.threw
  /\ fnIn.specs[1].sense # fnIn.specs[2].sense
  /\ Len(fnOut.fronts) = 3

\* C5: over axis lists mixing the senses, dominates is irreflexive,
\* asymmetric and transitive on vectors of the configured length, and it
\* throws exactly when one of the two vectors has another length.
DominatesIsStrictOrder ==
  fnOp = "dominates" =>
     \A p, q, r \in 1..Len(fnIn.pop) :
        /\ fnOut[<<p, q>>].threw <=>
              \/ Len(valuesOf(fnIn.pop, p)) # Len(fnIn.specs)
              \/ Len(valuesOf(fnIn.pop, q)) # Len(fnIn.specs)
        /\ ~fnOut[<<p, p>>].value
        /\ fnOut[<<p, q>>].value => ~fnOut[<<q, p>>].value
        /\ (fnOut[<<p, q>>].value /\ fnOut[<<q, r>>].value) => fnOut[<<p, r>>].value

\* a chain a > b > c under one max and one min axis
DominanceChainMixedSenses ==
  /\ fnOp = "dominates"
  /\ fnIn.specs[1].sense # fnIn.specs[2].sense
  /\ Len(fnIn.pop) = 3
  /\ fnOut[<<1, 2>>].value
  /\ fnOut[<<2, 3>>].value

rankBelow(g, h) == g.rank # <<>> /\ (h.rank = <<>> \/ g.rank[1] < h.rank[1])

sameRank(g, h) == ~rankBelow(g, h) /\ ~rankBelow(h, g)

\* C6: nsga2Select returns min(T, |population|) distinct genomes of the
\* population; a selected genome of rank r comes with every genome of lower
\* rank; in a front taken in part every selected member has a crowding
\* distance at least that of every member left out.
SelectTakesBestRanksThenCrowding ==
  (fnOp = "select" /\ wellFormed(fnIn.pop, fnIn.specs)) =>
     /\ ~fnOut.threw
     /\ Len(fnOut.selected) = Min(fnIn.args[1], Len(fnIn.pop))
     /\ noRepeats(fnOut.selected)
     /\ Range(fnOut.selected) \subseteq 1..Len(fnIn.pop)
     /\ \A p \in Range(fnOut.selected) : fnOut.pop[p].id = fnIn.pop[p].id
     /\ \A p \in Range(fnOut.selected) : \A q \in 1..Len(fnIn.pop) :
           rankBelow(fnOut.pop[q], fnOut.pop[p]) => q \in Range(fnOut.selected)
     /\ \A p \in Range(fnOut.selected) : \A q \in (1..Len(fnIn.pop)) \ Range(fnOut.selected) :
           sameRank(fnOut.pop[p], fnOut.pop[q]) =>
              NumGeq(fnOut.pop[p].crowding[1], fnOut.pop[q].crowding[1])

\* a front taken in part, where crowding decided
SelectedPartOfAFront ==
  /\ fnOp = "select"
  /\ ~fnOut.threw
  /\ \E p \in Range(fnOut.selected) : \E q \in (1..Len(fnIn.pop)) \ Range(fnOut.selected) :
        /\ sameRank(fnOut.pop[p], fnOut.pop[q])
        /\ NumGt(fnOut.pop[p].crowding[1], fnOut.pop[q].crowding[1])

frontIds(pop, front) == {pop[front[i]].id : i \in 1..Len(front)}

\* C7: crowdingDistance gives +Infinity to every member of a front of one or
\* two; on a front of three or more at least two members get +Infinity and
\* every distance is a number >= 0, never NaN; the distance is written to the
\* crowding slot of every member and the map has one entry per member.
CrowdingDistancesAreSound ==
  fnOp = "crowding" =>
     /\ DOMAIN fnOut.distances = frontIds(fnIn.pop, fnIn.args)
     /\ Cardinality(DOMAIN fnOut.distances) = Len(fnIn.args)
     /\ \A i \in 1..Len(fnIn.args) :
           fnOut.pop[fnIn.args[i]].crowding = << fnOut.distances[fnIn.pop[fnIn.args[i]].id] >>
     /\ Len(fnIn.args) \in {1, 2} =>
           \A id \in DOMAIN fnOut.distances : fnOut.distances[id] = Infinity
     /\ Len(fnIn.args) >= 3 =>
           /\ Cardinality({id \in DOMAIN fnOut.distances : fnOut.distances[id].inf}) >= 2
           /\ \A id \in DOMAIN fnOut.distances :
                 /\ ~IsNaN(fnOut.distances[id])
                 /\ fnOut.distances[id].inf \/ fnOut.distances[id].num >= 0

\* a front of three whose interior member has a finite positive distance
CrowdedInteriorMember ==
  /\ fnOp = "crowding"
  /\ Len(fnIn.args) >= 3
  /\ \E id \in DOMAIN fnOut.distances :
        ~fnOut.distances[id].inf /\ fnOut.distances[id].num > 0

\* the values of axis m over a front
axisValues(front, pop, m) == {pop[front[i]].objectives.values[m] : i \in 1..Len(front)}

\* largest value minus smallest value of axis m over the front
axisSpread(front, pop, m) ==
  (CHOOSE hi \in axisValues(front, pop, m) : \A v \in axisValues(front, pop, m) : v <= hi)
  - (CHOOSE lo \in axisValues(front, pop, m) : \A v \in axisValues(front, pop, m) : lo <= v)

\* |next - prev| / range of the member id when it is interior in the ordering
\* of axis m and the axis has a range of at least one unit; zero otherwise
axisShare(sorted, pop, m, spread, id) ==
  IF spread >= 1 /\ \E i \in 2..(Len(sorted) - 1) : pop[sorted[i]].id = id
  THEN LET i == CHOOSE j \in 2..(Len(sorted) - 1) : pop[sorted[j]].id = id
       IN Rat(Abs(pop[sorted[i + 1]].objectives.values[m]
                  - pop[sorted[i - 1]].objectives.values[m]), spread)
  ELSE Zero

RECURSIVE sharesFrom(_, _, _, _, _)
sharesFrom(front, pop, specs, id, m) ==
  IF m > Len(specs) THEN Zero
  ELSE NumAdd(axisShare(stableSort(front, axisLt(front, pop, m, specs[m].sense)), pop, m,
                        axisSpread(front, pop, m), id),
              sharesFrom(front, pop, specs, id, m + 1))

\* C24: in crowdingDistance on a front of three or more, every axis of either
\* sense whose range (largest minus smallest value over the front) is at least
\* 1e-10 adds |next - prev| / range to every member interior in that axis's
\* ordering; only axes of range below 1e-10 add nothing.  So a member that is
\* at no boundary has the sum of these shares over all the axes.
CrowdingCountsEveryAxis ==
  (fnOp = "crowding" /\ Len(fnIn.args) >= 3) =>
     \A id \in DOMAIN fnOut.distances :
        ~fnOut.distances[id].inf =>
           fnOut.distances[id] = sharesFrom(fnIn.args, fnIn.pop, fnIn.specs, id, 1)

\* C8: tournamentSelect on a non-empty population returns one of the two
\* genomes it drew: the one of lower rank; on equal rank the one of higher
\* crowding; on both equal the first drawn.  The winner's rank is at most the
\* rank of either.
TournamentWinnerRule ==
  fnOp = "tournament" =>
     /\ {fnOut.a, fnOut.b} \subseteq 1..Len(fnIn.pop)
     /\ fnOut.winner \in {fnOut.a, fnOut.b}
     /\ rankBelow(fnIn.pop[fnOut.a], fnIn.pop[fnOut.b]) => fnOut.winner = fnOut.a
     /\ rankBelow(fnIn.pop[fnOut.b], fnIn.pop[fnOut.a]) => fnOut.winner = fnOut.b
     /\ sameRank(fnIn.pop[fnOut.a], fnIn.pop[fnOut.b]) =>
           /\ NumGt(crowdingOrZero(fnIn.pop[fnOut.a]), crowdingOrZero(fnIn.pop[fnOut.b]))
                 => fnOut.winner = fnOut.a
           /\ NumGt(crowdingOrZero(fnIn.pop[fnOut.b]), crowdingOrZero(fnIn.pop[fnOut.a]))
                 => fnOut.winner = fnOut.b
           /\ crowdingOrZero(fnIn.pop[fnOut.a]) = crowdingOrZero(fnIn.pop[fnOut.b])
                 => fnOut.winner = fnOut.a
     /\ ~rankBelow(fnIn.pop[fnOut.a], fnIn.pop[fnOut.winner])
     /\ ~rankBelow(fnIn.pop[fnOut.b], fnIn.pop[fnOut.winner])

\* two different genomes of equal rank and equal crowding were drawn
TournamentTieToFirstDrawn ==
  /\ fnOp = "tournament"
  /\ fnOut.a # fnOut.b
  /\ fnIn.pop[fnOut.a].rank # <<>>
  /\ fnIn.pop[fnOut.a].rank = fnIn.pop[fnOut.b].rank
  /\ fnIn.pop[fnOut.a].crowding = fnIn.pop[fnOut.b].crowding
  /\ fnOut.winner = fnOut.a

\* ---------------------------------------- calls of the gate (proof-gate.ts)
\* the law lists of the drawn gate configurations: none, the default two,
\* and a list whose first law has no threshold
GateLaws ==
  { <<>>,
    DEFAULT_PROOF_GATE.laws,
    << [name |-> "max-latency", idx |-> 1, sense |-> "min", threshold |-> Undefined],
       DEFAULT_PROOF_GATE.laws[1] >> }

GateConfigs ==
  {[DEFAULT_PROOF_GATE EXCEPT !.laws = laws, !.requireStability = s] :
      laws \in GateLaws, s \in BOOLEAN}

\* objective vectors: one within every threshold, and one beyond each of the
\* gain, privacy and cost thresholds
GateObjectiveValues ==
  { <<50, 5000, 0, 50, 50, 500>>,
    <<5, 5000, 0, 50, 50, 500>>,
    <<50, 5000, 0, 50, 150, 500>>,
    <<50, 5000, 0, 50, 50, 1500>> }

\* the proof slot of an agent that passed an earlier gate application with
\* the values within every threshold (204-209)
earlierProof ==
  proofBundle(DEFAULT_EVOLUTION_GATE,
              verifyAgent([createAgent(<<"a", 0>>, "tutor", 0) EXCEPT
                             !.objectives.values = <<50, 5000, 0, 50, 50, 500>>],
                          DEFAULT_EVOLUTION_GATE, TRUE))

\* tools, state and proof slot of the drawn agents: a state of energy 1 with
\* a tool list within and beyond the tool budget, a state of energy 0, and
\* an agent still carrying the proof of an earlier gate application
GateBodies ==
  { [tools |-> <<>>, state |-> <<[re |-> 0, im |-> 0]>>, proof |-> Undefined],
    [tools |-> << [name |-> "search", cost |-> 600] >>, state |-> <<[re |-> 0, im |-> 0]>>,
     proof |-> Undefined],
    [tools |-> <<>>, state |-> <<[re |-> 100, im |-> 0]>>, proof |-> Undefined],
    [tools |-> <<>>, state |-> <<[re |-> 0, im |-> 0]>>, proof |-> Some(earlierProof)] }

gateAgent(i, values, body) ==
  [createAgent(<<"a", i>>, "tutor", 0) EXCEPT
     !.objectives.values = values,
     !.coordination.tools = body.tools,
     !.perception.state = body.state,
     !.proof = body.proof]

GateAgents(i) ==
  {gateAgent(i, values, body) : values \in GateObjectiveValues, body \in GateBodies}

GatePopulations ==
  UNION {{f \in [1..n -> UNION {GateAgents(i) : i \in 1..n}] :
            \A i \in 1..n : f[i] \in GateAgents(i)} : n \in 0..MaxAgents}

InitGate ==
  /\ DriverIdle
  /\ fnOp = "none"
  /\ fnIn \in [population : GatePopulations, config : GateConfigs, args : {<<>>}]
  /\ fnOut = <<>>

\* verifyAgent on the i-th drawn agent, for an answer isStable can give
CallVerify(i) ==
  /\ fnOp = "none"
  /\ i \in 1..Len(fnIn.population)
  /\ fnOp' = "verify"
  /\ fnIn' = [fnIn EXCEPT !.args = <<i>>]
  /\ \E stable \in stableChoices(fnIn.population, fnIn.config) :
        fnOut' = verifyAgent(fnIn.population[i], fnIn.config, stable[i])
  /\ UNCHANGED driverVars

\* applyProofGate on the drawn population, for the answers isStable can give
CallApplyGate ==
  /\ fnOp = "none"
  /\ fnOp' = "gate"
  /\ \E stable \in stableChoices(fnIn.population, fnIn.config) :
        fnOut' = applyProofGate(fnIn.population, fnIn.config, stable)
  /\ UNCHANGED <<fnIn, driverVars>>

\* a proof bundle whose verified flag is false (agent.ts 105-110)
unverifiedProof == [earlierProof EXCEPT !.verified = FALSE]

\* generateProofCertificate on the i-th drawn agent, with the proof slot it
\* has or with a bundle whose verified flag is false
CallCertificate(i) ==
  /\ fnOp = "none"
  /\ i \in 1..Len(fnIn.population)
  /\ fnOp' = "certificate"
  /\ \E proof \in {fnIn.population[i].proof, Some(unverifiedProof)} :
        /\ fnIn' = [fnIn EXCEPT !.args = <<[fnIn.population[i] EXCEPT !.proof = proof]>>]
        /\ fnOut' = generateProofCertificate([fnIn.population[i] EXCEPT !.proof = proof])
  /\ UNCHANGED driverVars

NextGate ==
  \/ \E i \in 1..MaxAgents : CallVerify(i)
  \/ CallApplyGate
  \/ \E i \in 1..MaxAgents : CallCertificate(i)

SpecGate == InitGate /\ [][NextGate]_vars

\* --------------------------------------------------- properties of the gate
canonicalNames(config) ==
  [i \in 1..Len(config.laws) |-> config.laws[i].name]
  \o <<"privacy-loss", "cost">>
  \o (IF config.requireStability THEN <<"stability">> ELSE <<>>)
  \o <<"tool-budget">>

verifiedAgent == fnIn.population[fnIn.args[1]]

\* C9: the checks verifyAgent returns are in the canonical order (the laws in
\* configured order, privacy-loss, cost, stability only when required,
\* tool-budget); passed is true iff every check passed; an agent whose
\* objective 5 exceeds maxCost fails with a failing cost check that carries
\* the value and the threshold.
VerifyAgentChecksInOrder ==
  fnOp = "verify" =>
     /\ [i \in 1..Len(fnOut.checks) |-> fnOut.checks[i].name] = canonicalNames(fnIn.config)
     /\ fnOut.passed <=> \A i \in 1..Len(fnOut.checks) : fnOut.checks[i].passed
     /\ verifiedAgent.objectives.values[6] > fnIn.config.maxCost =>
           /\ ~fnOut.passed
           /\ \E i \in 1..Len(fnOut.checks) :
                 /\ fnOut.checks[i].name = "cost"
                 /\ ~fnOut.checks[i].passed
                 /\ fnOut.checks[i].value
                      = << [nan |-> FALSE, v |-> verifiedAgent.objectives.values[6]] >>
                 /\ fnOut.checks[i].threshold = << fnIn.config.maxCost >>

\* an agent over the cost bound, verified under two laws and stability, whose
\* only failing check is the cost check
VerifiedOverCost ==
  /\ fnOp = "verify"
  /\ verifiedAgent.objectives.values[6] > fnIn.config.maxCost
  /\ Len(fnOut.checks) = 6
  /\ \A i \in 1..Len(fnOut.checks) : fnOut.checks[i].passed <=> fnOut.checks[i].name # "cost"

increasing(s) == \A i, j \in 1..Len(s) : i < j => s[i] < s[j]

\* C10: applyProofGate puts every input agent in exactly one of passed and
\* failed, both in input order; an agent is in passed iff its record has
\* passed = true; every passed agent ends with a proof whose verified flag is
\* true; the map holds one record per input id; the empty input gives empty
\* lists and an empty map.
GatePartitionsPopulation ==
  fnOp = "gate" =>
     /\ Range(fnOut.passed) \cup Range(fnOut.failed) = 1..Len(fnIn.population)
     /\ Range(fnOut.passed) \cap Range(fnOut.failed) = {}
     /\ increasing(fnOut.passed)
     /\ increasing(fnOut.failed)
     /\ \A p \in 1..Len(fnIn.population) :
           /\ fnOut.population[p].id = fnIn.population[p].id
           /\ p \in Range(fnOut.passed) <=> fnOut.results[fnIn.population[p].id].passed
     /\ \A p \in Range(fnOut.passed) :
           /\ fnOut.population[p].proof # <<>>
           /\ fnOut.population[p].proof[1].verified = TRUE
     /\ DOMAIN fnOut.results = Ids(fnIn.population)
     /\ Cardinality(DOMAIN fnOut.results) = Len(fnIn.population)
     /\ fnIn.population = <<>> =>
           fnOut.passed = <<>> /\ fnOut.failed = <<>> /\ DOMAIN fnOut.results = {}

\* the first agent failed and the second passed
GateSplitPopulation ==
  /\ fnOp = "gate"
  /\ fnOut.failed = <<1>>
  /\ fnOut.passed = <<2>>

\* C11: after applyProofGate every individual of the failed list is, field
\* by field (proof slot, objectives, state, lineage and provenance included),
\* what it was before the call.
GateLeavesFailedUntouched ==
  fnOp = "gate" =>
     \A p \in Range(fnOut.failed) : fnOut.population[p] = fnIn.population[p]

\* an agent carrying an earlier proof failed next to one that passed
FailedKeptEarlierProof ==
  /\ fnOp = "gate"
  /\ fnOut.passed = <<1>>
  /\ fnOut.failed = <<2>>
  /\ fnIn.population[2].proof # <<>>
  /\ fnOut.population[1].proof # fnIn.population[1].proof

\* C23: generateProofCertificate renders every unverified individual, one
\* with no verification record or with a record whose verified flag is
\* false, as exactly the text 'No proof certificate available'.
UnverifiedRendersNoCertificate ==
  (/\ fnOp = "certificate"
   /\ \/ fnIn.args[1].proof = <<>>
      \/ ~fnIn.args[1].proof[1].verified)
     => fnOut = <<"No proof certificate available">>

\* ------------------------------------------------- properties of the driver
\* C1: every individual of the finalPopulation evolve returns carries a proof
\* whose verified flag is true.
FinalPopulationIsVerified ==
  pc = "done" =>
     \A i \in 1..Len(result.finalPopulation) :
        /\ result.finalPopulation[i].proof # <<>>
        /\ result.finalPopulation[i].proof[1].verified = TRUE

\* a run of two generations returned with two individuals
ReturnedTwoIndividuals ==
  /\ pc = "done"
  /\ cfg.generations = 2
  /\ halted = <<>>
  /\ Len(result.finalPopulation) = 2

\* C2: the returned stats have length G when no generation ended with zero
\* passed individuals and length < G when the run halted early; stats[i] is
\* the snapshot of generation i.
SnapshotsFollowGenerations ==
  pc = "done" =>
     /\ halted = <<>> => Len(result.stats) = cfg.generations
     /\ halted # <<>> => Len(result.stats) < cfg.generations
     /\ \A i \in 1..Len(result.stats) : result.stats[i].generation = i - 1

\* a run of two generations that halted in the second
HaltedInSecondGeneration ==
  /\ pc = "done"
  /\ cfg.generations = 2
  /\ halted = <<1>>
  /\ Len(result.stats) = 1

\* C3: when the gate passes nobody at generation k the run returns without
\* an error and the returned stats hold a snapshot of generation k.
HaltStillRecordsSnapshot ==
  (pc = "done" /\ halted # <<>>) =>
     \E i \in 1..Len(result.stats) : result.stats[i].generation = halted[1]

\* ------- calls of the agent operations (agent.ts, evolution.ts, hilbert.ts)
\* The operations applied one after another to a pool of agents: fnOut.agents
\* is the pool after the last call, fnIn.agents the pool before it, fnIn.args
\* the arguments of the call, fnOut.value what it returned and fnOut.threw
\* whether it threw.  fnOut.refs[k] names, for each object and array of the
\* k-th agent that some operation writes in place, the agent it was allocated
\* for: two agents share an object when they name the same one, and a write
\* through one of them shows in the other.

\* the number of operations applied in a row
MaxCalls == 2

\* an agent as a caller builds it: createAgent, then three addFact and two
\* addTool calls for a rich agent, and an assigned generation
builtAgent(i, dim, rich, generation) ==
  LET a0 == createAgent(<<"p", i>>, "tutor", dim)
      a1 == addFact(addFact(addFact(a0, <<"fact", i, 1>>), <<"fact", i, 2>>), <<"fact", i, 3>>)
      a2 == addTool(addTool(a1, [name |-> <<"tool", i, 1>>, cost |-> 100]),
                    [name |-> <<"tool", i, 2>>, cost |-> 50])
  IN [(IF rich THEN a2 ELSE a0) EXCEPT !.generation = generation]

BuiltAgents(i) ==
  {builtAgent(i, dim, rich, g) : dim \in 0..MaxDimension, rich \in BOOLEAN, g \in {0, 2}}

AgentPools ==
  UNION {{f \in [1..n -> UNION {BuiltAgents(i) : i \in 1..n}] :
            \A i \in 1..n : f[i] \in BuiltAgents(i)} : n \in 1..MaxAgents}

\* the gates applied to the pool
PoolGates == {DEFAULT_EVOLUTION_GATE}

\* the rates mutateAgent is called with, in tenths
MutationRates == {0, 2, 10}

\* the objects and arrays of an agent that some operation writes in place
RefFields ==
  {"perception", "reasoning", "coordination", "objectives",
   "provenance", "knowledge", "tools", "decisions", "lineage"}

\* createAgent (agent.ts 150-176): every object and array is a new literal
freshRefs(n) == [f \in RefFields |-> n]

cloneRefsShallow(parentRefs, n) == parentRefs

\* cloneAgent (agent.ts 185-207): every nested object is a new literal and
\* every array a new spread copy, so the clone n keeps none of the parent's
cloneRefs(parentRefs, n) == freshRefs(n)

\* crossoverAgents (evolution.ts 113-136): the clone's objects, with new
\* arrays assigned to knowledge, tools and lineage
crossoverRefs(parentRefs, n) ==
  [cloneRefs(parentRefs, n) EXCEPT !.knowledge = n, !.tools = n, !.lineage = n]

\* the pool after a write to the i-th agent that left it as `after`: a field
\* assigned on a nested object shows in every agent sharing that object, and
\* a push or pop on one of the arrays inPlace in every agent sharing that
\* array
sharedWrite(agents, refs, i, after, inPlace) ==
  [j \in 1..Len(agents) |->
     IF j = i THEN after
     ELSE [agents[j] EXCEPT
             !.perception =
                IF refs[j].perception = refs[i].perception THEN after.perception
                ELSE IF "provenance" \in inPlace /\ refs[j].provenance = refs[i].provenance
                THEN [@ EXCEPT !.provenance = after.perception.provenance]
                ELSE @,
             !.reasoning =
                IF refs[j].reasoning = refs[i].reasoning THEN after.reasoning
                ELSE IF "knowledge" \in inPlace /\ refs[j].knowledge = refs[i].knowledge
                THEN [@ EXCEPT !.knowledge = after.reasoning.knowledge]
                ELSE @,
             !.coordination =
                IF refs[j].coordination = refs[i].coordination THEN after.coordination
                ELSE [@ EXCEPT
                        !.tools = IF "tools" \in inPlace /\ refs[j].tools = refs[i].tools
                                  THEN after.coordination.tools ELSE @,
                        !.decisions =
                           IF "decisions" \in inPlace /\ refs[j].decisions = refs[i].decisions
                           THEN after.coordination.decisions ELSE @],
             !.objectives =
                IF refs[j].objectives = refs[i].objectives THEN after.objectives ELSE @,
             !.lineage =
                IF "lineage" \in inPlace /\ refs[j].lineage = refs[i].lineage
                THEN after.lineage ELSE @]]

InitAgents ==
  /\ DriverIdle
  /\ fnOp = "none"
  /\ fnIn \in [agents : AgentPools, args : {<<>>}]
  /\ fnOut = [agents |-> fnIn.agents, refs |-> [k \in 1..Len(fnIn.agents) |-> freshRefs(k)],
              value |-> <<>>, threw |-> FALSE, calls |-> 0]

\* one call made: the pool before it, its arguments, the pool after it, the
\* objects its agents hold and what it returned
CalledWith(op, args, agentsAfter, refsAfter, value, threw) ==
  /\ fnOut.calls < MaxCalls
  /\ fnOp' = op
  /\ fnIn' = [agents |-> fnOut.agents, args |-> args]
  /\ fnOut' = [agents |-> agentsAfter, refs |-> refsAfter, value |-> value, threw |-> threw,
               calls |-> fnOut.calls + 1]
  /\ UNCHANGED driverVars

\* a call that allocates no agent
Called(op, args, agentsAfter, value, threw) ==
  CalledWith(op, args, agentsAfter, fnOut.refs, value, threw)

\* createAgent (agent.ts 145-177)
CallCreate(dim) ==
  CalledWith("create", <<dim>>,
             Append(fnOut.agents, createAgent(<<"p", Len(fnOut.agents) + 1>>, "tutor", dim)),
             Append(fnOut.refs, freshRefs(Len(fnOut.agents) + 1)),
             <<Len(fnOut.agents) + 1>>, FALSE)

\* cloneAgent (agent.ts 182-209)
CallClone(i) ==
  /\ i \in 1..Len(fnOut.agents)
  /\ CalledWith("clone", <<i>>,
                Append(fnOut.agents, cloneAgent(fnOut.agents[i], <<"c", Len(fnOut.agents) + 1>>)),
                Append(fnOut.refs, cloneRefs(fnOut.refs[i], Len(fnOut.agents) + 1)),
                <<Len(fnOut.agents) + 1>>, FALSE)

\* updatePerception (agent.ts 235-243) with a unit state
CallUpdatePerception(i) ==
  /\ i \in 1..Len(fnOut.agents)
  /\ Called("updatePerception", <<i>>,
            sharedWrite(fnOut.agents, fnOut.refs, i,
                        updatePerception(fnOut.agents[i], <<[re |-> 60, im |-> 80]>>,
                                         <<"observe">>),
                        {"provenance"}),
            <<>>, FALSE)

\* recordDecision (agent.ts 228-230)
CallRecordDecision(i) ==
  /\ i \in 1..Len(fnOut.agents)
  /\ Called("recordDecision", <<i>>,
            sharedWrite(fnOut.agents, fnOut.refs, i,
                        recordDecision(fnOut.agents[i], <<"decision", fnOut.calls>>),
                        {"decisions"}),
            <<>>, FALSE)

\* the pool after crossoverAgents (evolution.ts 113-138): the child n is the
\* clone of the first parent, written to after it is cloned
crossoverPool(agents, refs, i, j, n) ==
  sharedWrite(Append(agents, cloneAgent(agents[i], <<"x", n>>)),
              Append(refs, cloneRefs(refs[i], n)),
              n, crossoverAgents(agents[i], agents[j], <<"x", n>>), {"provenance"})

\* crossoverAgents (evolution.ts 108-139)
CallCrossover(i, j) ==
  /\ i \in 1..Len(fnOut.agents)
  /\ j \in 1..Len(fnOut.agents)
  /\ IF crossoverThrows(fnOut.agents[i], fnOut.agents[j])
     THEN Called("crossover", <<i, j, <<"x", Len(fnOut.agents) + 1>> >>, fnOut.agents, <<>>, TRUE)
     ELSE CalledWith("crossover", <<i, j, <<"x", Len(fnOut.agents) + 1>> >>,
                     crossoverPool(fnOut.agents, fnOut.refs, i, j, Len(fnOut.agents) + 1),
                     Append(fnOut.refs, crossoverRefs(fnOut.refs[i], Len(fnOut.agents) + 1)),
                     <<Len(fnOut.agents) + 1>>, FALSE)

\* mutateAgent (evolution.ts 144-168), for every outcome of its draws
CallMutate(i, rate) ==
  /\ i \in 1..Len(fnOut.agents)
  /\ \E draws \in MutationDraws(Len(fnOut.agents[i].perception.state)) :
        Called("mutate", <<i, rate, draws.mutate>>,
               sharedWrite(fnOut.agents, fnOut.refs, i,
                           mutateAgent(fnOut.agents[i], rate, draws),
                           {"provenance", "knowledge", "lineage"}),
               <<>>, FALSE)

\* applyProofGate (proof-gate.ts 186-217) on the whole pool
CallGatePool(config) ==
  \E stable \in stableChoices(fnOut.agents, config) :
     LET gate == applyProofGate(fnOut.agents, config, stable) IN
     Called("gate", <<config>>, gate.population,
            <<[passed |-> gate.passed, failed |-> gate.failed]>>, FALSE)

\* evaluateAgent (evolution.ts 74-103)
CallEvaluate(i) ==
  /\ i \in 1..Len(fnOut.agents)
  /\ Called("evaluate", <<i>>,
            sharedWrite(fnOut.agents, fnOut.refs, i, evaluateAgent(fnOut.agents[i]), {}),
            <<>>, FALSE)

\* innerProduct (hilbert.ts 56-71) of the states of two agents
CallInnerProduct(i, j) ==
  /\ i \in 1..Len(fnOut.agents)
  /\ j \in 1..Len(fnOut.agents)
  /\ LET a == fnOut.agents[i].perception.state
         b == fnOut.agents[j].perception.state
     IN IF dimensionThrows(a, b)
        THEN Called("innerProduct", <<a, b>>, fnOut.agents, <<>>, TRUE)
        ELSE Called("innerProduct", <<a, b>>, fnOut.agents, <<innerProduct(a, b)>>, FALSE)

\* stateDistance (hilbert.ts 76-87) of the states of two agents
CallStateDistance(i, j) ==
  /\ i \in 1..Len(fnOut.agents)
  /\ j \in 1..Len(fnOut.agents)
  /\ LET a == fnOut.agents[i].perception.state
         b == fnOut.agents[j].perception.state
     IN IF dimensionThrows(a, b)
        THEN Called("stateDistance", <<a, b>>, fnOut.agents, <<>>, TRUE)
        ELSE Called("stateDistance", <<a, b>>, fnOut.agents, <<stateDistance(a, b)>>, FALSE)

\* spectralSync (hilbert.ts 119-140) of the states of two agents
CallSpectralSync(i, j) ==
  /\ i \in 1..Len(fnOut.agents)
  /\ j \in 1..Len(fnOut.agents)
  /\ LET states == <<fnOut.agents[i].perception.state, fnOut.agents[j].perception.state>>
     IN IF spectralSyncThrows(states)
        THEN Called("spectralSync", states, fnOut.agents, <<>>, TRUE)
        ELSE Called("spectralSync", states, fnOut.agents, <<spectralSync(states)>>, FALSE)

NextAgents ==
  \/ \E dim \in 0..MaxDimension : CallCreate(dim)
  \/ \E i \in 1..MaxAgents + MaxCalls : CallClone(i)
  \/ \E i \in 1..MaxAgents + MaxCalls : CallUpdatePerception(i)
  \/ \E i \in 1..MaxAgents + MaxCalls : CallRecordDecision(i)
  \/ \E i, j \in 1..MaxAgents + MaxCalls : CallCrossover(i, j)
  \/ \E i \in 1..MaxAgents + MaxCalls, rate \in MutationRates : CallMutate(i, rate)
  \/ \E config \in PoolGates : CallGatePool(config)
  \/ \E i \in 1..MaxAgents + MaxCalls : CallEvaluate(i)
  \/ \E i, j \in 1..MaxAgents + MaxCalls : CallInnerProduct(i, j)
  \/ \E i, j \in 1..MaxAgents + MaxCalls : CallStateDistance(i, j)
  \/ \E i, j \in 1..MaxAgents + MaxCalls : CallSpectralSync(i, j)

SpecAgents == InitAgents /\ [][NextAgents]_vars

\* ----------------------------------- properties of the agent operations
\* the first k items of a list
firstItems(s, k) == [n \in 1..(IF Len(s) < k THEN Len(s) ELSE k) |-> s[n]]

crossoverParent1 == fnIn.agents[fnIn.args[1]]

crossoverParent2 == fnIn.agents[fnIn.args[2]]

crossoverChild == fnOut.agents[fnOut.value[1]]

\* C12: the child crossoverAgents(p1, p2, id) returns has the given id, the
\* generation max(p1.generation, p2.generation) + 1 (greater than both
\* parents'), as knowledge the first two items of p1 followed by the first
\* two of p2, as tools the first tool of p1 followed by the first of p2, and
\* a state of the parents' dimension when their dimensions are equal.
CrossoverBuildsChild ==
  (fnOp = "crossover" /\ ~fnOut.threw) =>
     /\ crossoverChild.id = fnIn.args[3]
     /\ \/ /\ crossoverParent1.generation >= crossoverParent2.generation
           /\ crossoverChild.generation = crossoverParent1.generation + 1
        \/ /\ crossoverParent2.generation >= crossoverParent1.generation
           /\ crossoverChild.generation = crossoverParent2.generation + 1
     /\ crossoverChild.generation > crossoverParent1.generation
     /\ crossoverChild.generation > crossoverParent2.generation
     /\ crossoverChild.reasoning.knowledge
          = firstItems(crossoverParent1.reasoning.knowledge, 2)
            \o firstItems(crossoverParent2.reasoning.knowledge, 2)
     /\ crossoverChild.coordination.tools
          = firstItems(crossoverParent1.coordination.tools, 1)
            \o firstItems(crossoverParent2.coordination.tools, 1)
     /\ Len(crossoverParent1.perception.state) = Len(crossoverParent2.perception.state)
          => Len(crossoverChild.perception.state) = Len(crossoverParent1.perception.state)

\* two parents of three facts and two tools each, of generations 0 and 2 and
\* of dimension 1, crossed into a child of generation 3
CrossedRichParents ==
  /\ fnOp = "crossover"
  /\ ~fnOut.threw
  /\ fnIn.args[1] # fnIn.args[2]
  /\ Len(crossoverParent1.reasoning.knowledge) = 3
  /\ Len(crossoverParent2.reasoning.knowledge) = 3
  /\ crossoverParent1.generation = 0
  /\ crossoverParent2.generation = 2
  /\ Len(crossoverParent1.perception.state) = 1
  /\ Len(crossoverParent2.perception.state) = 1
  /\ crossoverChild.generation = 3
  /\ Len(crossoverChild.reasoning.knowledge) = 4
  /\ Len(crossoverChild.coordination.tools) = 2

\* C27: for all parents, with lineages of any lengths, the child
\* returned by crossoverAgents has a lineage strictly longer than the longer
\* of the two parents' lineages, and that lineage contains a crossover tag.
CrossoverOutgrowsBothLineages ==
  (fnOp = "crossover" /\ ~fnOut.threw) =>
     /\ Len(crossoverChild.lineage)
          > Max(Len(crossoverParent1.lineage), Len(crossoverParent2.lineage))
     /\ \E k \in 1..Len(crossoverChild.lineage) : crossoverChild.lineage[k][1] = "crossover:gen"

mutatedBefore == fnIn.agents[fnIn.args[1]]

mutatedAfter == fnOut.agents[fnIn.args[1]]

\* C13: mutateAgent(individual, rate) mutates iff its first draw is below the
\* rate.  When it does not (always with rate 0) no field of the individual
\* changes; when it does (always with rate 1) it appends exactly the lineage
\* tag 'mutation:gen<n>' and exactly the provenance tag 'mutation', keeps the
\* state dimension and changes the knowledge size by at most one.
MutationFollowsFirstDraw ==
  fnOp = "mutate" =>
     /\ fnIn.args[2] = 0 => fnIn.args[3] >= fnIn.args[2]
     /\ fnIn.args[2] = 10 => fnIn.args[3] < fnIn.args[2]
     /\ fnIn.args[3] >= fnIn.args[2] => mutatedAfter = mutatedBefore
     /\ fnIn.args[3] < fnIn.args[2] =>
           /\ mutatedAfter.lineage
                = mutatedBefore.lineage \o << <<"mutation:gen", mutatedBefore.generation>> >>
           /\ mutatedAfter.perception.provenance
                = mutatedBefore.perception.provenance \o << <<"mutation">> >>
           /\ Len(mutatedAfter.perception.state) = Len(mutatedBefore.perception.state)
           /\ Len(mutatedAfter.reasoning.knowledge) - Len(mutatedBefore.reasoning.knowledge)
                \in {-1, 0, 1}
     /\ \A k \in 1..Len(fnIn.agents) : k # fnIn.args[1] => fnOut.agents[k] = fnIn.agents[k]

\* a mutation at rate 0.2 that moved the state of an agent of dimension 1 and
\* dropped one of its three facts
MutationDroppedAFact ==
  /\ fnOp = "mutate"
  /\ fnIn.args[2] = 2
  /\ fnIn.args[3] < 2
  /\ Len(mutatedBefore.perception.state) = 1
  /\ mutatedAfter.perception.state # mutatedBefore.perception.state
  /\ Len(mutatedBefore.reasoning.knowledge) = 3
  /\ Len(mutatedAfter.reasoning.knowledge) = 2

\* whether the list a is a prefix of the list b
isPrefix(a, b) == Len(a) <= Len(b) /\ SubSeq(b, 1, Len(a)) = a

\* C15: under every sequence of core operations the lineage, the provenance
\* and the decision history of an individual only grow at the end (each value
\* before a call is a prefix of the value after it), and the lineage and the
\* provenance of a child begin with those its first parent had when the
\* child was created.
TrailsAreAppendOnly ==
  /\ Len(fnIn.agents) <= Len(fnOut.agents)
  /\ \A k \in 1..Len(fnIn.agents) :
        /\ fnOut.agents[k].id = fnIn.agents[k].id
        /\ isPrefix(fnIn.agents[k].lineage, fnOut.agents[k].lineage)
        /\ isPrefix(fnIn.agents[k].perception.provenance,
                    fnOut.agents[k].perception.provenance)
        /\ isPrefix(fnIn.agents[k].coordination.decisions,
                    fnOut.agents[k].coordination.decisions)
  /\ (fnOp \in {"clone", "crossover"} /\ ~fnOut.threw) =>
        /\ isPrefix(fnIn.agents[fnIn.args[1]].lineage, fnOut.agents[fnOut.value[1]].lineage)
        /\ isPrefix(fnIn.agents[fnIn.args[1]].perception.provenance,
                    fnOut.agents[fnOut.value[1]].perception.provenance)

\* a child made by crossover was mutated by the next call: its lineage holds
\* genesis, clone-from, crossover and mutation, in that order
MutatedACrossedChild ==
  /\ fnOp = "mutate"
  /\ fnOut.calls = 2
  /\ fnIn.args[1] = Len(fnIn.agents)
  /\ [k \in 1..Len(mutatedAfter.lineage) |-> mutatedAfter.lineage[k][1]]
       = <<"genesis", "clone-from", "crossover:gen", "mutation:gen">>
  /\ [k \in 1..Len(mutatedAfter.perception.provenance) |->
         mutatedAfter.perception.provenance[k][1]]
       = <<"init", "clone", "crossover", "mutation">>

\* C17: innerProduct(a, b) and stateDistance(a, b) with |a| # |b|, and
\* spectralSync(states) with an input shorter or longer than the first one,
\* fail with an error and return neither a state nor a number.
KernelRejectsMismatchedDimensions ==
  (/\ fnOp \in {"innerProduct", "stateDistance", "spectralSync"}
   /\ Len(fnIn.args[1]) # Len(fnIn.args[2]))
     => (fnOut.threw /\ fnOut.value = <<>>)

\* C30: reproduction never modifies existing individuals: creating a child
\* with cloneAgent or crossoverAgents leaves every agent of the pool as it
\* was, and mutateAgent on the child leaves every other agent as it was, in
\* every field (state, knowledge, tools, decisions, lineage, provenance,
\* generation, objectives).
ReproductionLeavesOthersUntouched ==
  /\ fnOp \in {"clone", "crossover"} =>
        \A j \in 1..Len(fnIn.agents) : fnOut.agents[j] = fnIn.agents[j]
  /\ fnOp = "mutate" =>
        /\ Len(fnOut.agents) = Len(fnIn.agents)
        /\ \A j \in 1..Len(fnIn.agents) :
              j # fnIn.args[1] => fnOut.agents[j] = fnIn.agents[j]

\* a clone of a parent with three facts was mutated and lost a fact, and the
\* parent still has its three
MutatedCloneBesideParent ==
  /\ fnOp = "mutate"
  /\ fnIn.args[1] = Len(fnIn.agents)
  /\ mutatedBefore.lineage[Len(mutatedBefore.lineage)] = <<"clone-from", <<"p", 1>> >>
  /\ mutatedAfter.lineage[Len(mutatedAfter.lineage)][1] = "mutation:gen"
  /\ Len(mutatedBefore.reasoning.knowledge) = 3
  /\ Len(mutatedAfter.reasoning.knowledge) = 2
  /\ Len(mutatedAfter.perception.state) = 1
  /\ Len(fnOut.agents[1].reasoning.knowledge) = 3
  /\ fnOut.agents[1].lineage = <<<<"genesis">>>>

\* ------------------------------------------ more properties of the driver
\* C16: a configuration with populationSize < 3, generations < 1 or an empty
\* objectives list makes evolve fail instead of returning a result.
InvalidConfigurationNeverReturns ==
  (cfg.populationSize < 3 \/ cfg.generations < 1 \/ cfg.objectives = <<>>)
     => pc # "done"

\* the position of the last tag of the given kind in a trail, 0 when none
lastTag(trail, kind) ==
  LET at == {k \in 1..Len(trail) : trail[k][1] = kind} IN
  IF at = {} THEN 0 ELSE CHOOSE k \in at : \A j \in at : j <= k

\* the ids of the parents a child was created from, as cloneAgent and
\* crossoverAgents wrote them into its lineage and its provenance
parentIds(child) ==
  LET provenance == child.perception.provenance
      c == lastTag(child.lineage, "clone-from")
      x == lastTag(provenance, "crossover")
  IN (IF c = 0 THEN {} ELSE {child.lineage[c][2]})
     \cup (IF x > lastTag(provenance, "clone") THEN {provenance[x][2], provenance[x][3]}
           ELSE {})

\* the child pushed by a step of the reproduction loop
pushedChild ==
  IF pc' = "reproduce" THEN nextGen'[Len(nextGen')] ELSE population'[Len(population')]

\* C14: in every run of evolve each child created during reproduction, by
\* crossover or by clone, has a generation counter >= that of each parent it
\* was created from.
GenerationsMonotoneAlongEdges ==
  [][pc = "reproduce" =>
       \A p \in 1..Len(population) :
          population[p].id \in parentIds(pushedChild)
             => population[p].generation <= pushedChild.generation]_vars

\* the third generation holds a child of generation 2 crossed from two
\* different parents
CrossedChildOfTwoParents ==
  /\ gen = 2
  /\ \E p \in 1..Len(population) :
        /\ population[p].generation = 2
        /\ Cardinality(parentIds(population[p])) = 2

\* C18: under every interleaving of the evaluateAgent calls the gate of a
\* generation, and of the final pass, starts only when the evaluation of
\* every individual of the population has completed, and each evaluateAgent
\* call writes the objectives of its own individual and no field any other
\* member of the population reads or writes.
EvaluationIsABarrier ==
  [][/\ (pc \in {"evaluate", "final-evaluate"} /\ pc' # pc) =>
           /\ evaluated = 1..Len(population)
           /\ \A i \in 1..Len(population) :
                 population[i].objectives = evaluateAgent(population[i]).objectives
     /\ (pc \in {"evaluate", "final-evaluate"} /\ pc' = pc) =>
           \E i \in (1..Len(population)) \ evaluated :
              /\ evaluated' = evaluated \cup {i}
              /\ population' = [population EXCEPT
                                  ![i] = [@ EXCEPT !.objectives = population'[i].objectives]]
    ]_vars

\* the second of two evaluateAgent calls completed before the first
SecondEvaluatedFirst ==
  /\ pc = "evaluate"
  /\ Len(population) = 2
  /\ evaluated = {2}
  /\ population[1].objectives.values = <<0, 0, 0, 0, 0, 0>>
  /\ population[2].objectives.values[2] = 5000

\* C19: for every configured objectives list of length >= 1, the objective
\* vector of every individual that reaches the gate (and with it the sort and
\* the statistics step) has as many values as there are configured axes.
ObjectiveVectorsMatchAxes ==
  (/\ Len(cfg.objectives) >= 1
   /\ pc \in {"evaluate", "final-evaluate"}
   /\ evaluated = 1..Len(population))
     => \A i \in 1..Len(population) :
           Len(population[i].objectives.values) = Len(cfg.objectives)

\* C20: no two individuals of the population entering evaluation at any
\* generation of a run share an id, and neither do two individuals of the
\* next generation under construction: a child of generation k+1 gets the id
\* 'agent-gen<k+1>-<n>', unlike the ids of the survivors and of the other
\* children.
IdsAreUnique ==
  /\ \A i, j \in 1..Len(population) : i # j => population[i].id # population[j].id
  /\ \A i, j \in 1..Len(nextGen) : i # j => nextGen[i].id # nextGen[j].id

\* the second generation enters evaluation with a survivor of the first
\* generation and two children created for the second
SurvivorAndTwoChildren ==
  /\ pc = "evaluate"
  /\ gen = 1
  /\ Len(population) = 3
  /\ population[1].id[2] = 0
  /\ population[2].id = <<"agent-gen", 1, 1>>
  /\ population[3].id = <<"agent-gen", 1, 2>>

\* a run under the default objectives and the default gate of the driver
\* (stability check disabled), of at least one individual and one generation
defaultRun ==
  /\ cfg.objectives = DEFAULT_OBJECTIVES
  /\ cfg.proofGate = DEFAULT_EVOLUTION_GATE
  /\ cfg.populationSize >= 1
  /\ cfg.generations >= 1

\* C21: under the default configuration (stability check disabled), for
\* every outcome of the random draws, no generation ends with zero passed
\* individuals and no step fails, so evolve returns exactly G snapshots of
\* generation indices 0 .. G-1 and a non-empty final population.  It is
\* checked for every population size >= 1, those >= 3 included.
DefaultRunNeverHalts ==
  defaultRun =>
     /\ halted = <<>>
     /\ pc # "error"
     /\ \A i \in 1..Len(stats) : stats[i].passedProofGate >= 1
     /\ pc = "done" =>
           /\ Len(result.stats) = cfg.generations
           /\ \A i \in 1..Len(result.stats) : result.stats[i].generation = i - 1
           /\ result.finalPopulation # <<>>

\* a default run of three individuals and two generations returned two
\* snapshots and three individuals
DefaultRunOfThreeReturned ==
  /\ defaultRun
  /\ pc = "done"
  /\ cfg.populationSize = 3
  /\ cfg.generations = 2
  /\ Len(result.stats) = 2
  /\ Len(result.finalPopulation) = 3

\* C22: in every recorded snapshot 1 <= paretoFrontSize <= passedProofGate;
\* in the returned result every member of paretoFront is a member of
\* finalPopulation, and paretoFront is non-empty whenever finalPopulation is.
ParetoFrontBookkeeping ==
  /\ \A i \in 1..Len(stats) :
        /\ 1 <= stats[i].paretoFrontSize
        /\ stats[i].paretoFrontSize <= stats[i].passedProofGate
  /\ pc = "done" =>
        /\ \A k \in 1..Len(result.paretoFront) :
              \E j \in 1..Len(result.finalPopulation) :
                 result.paretoFront[k] = result.finalPopulation[j]
        /\ result.finalPopulation # <<>> => result.paretoFront # <<>>

\* a run returned a final population of one individual, the second of a
\* population whose first individual failed the final gate, as Pareto front
FrontOfTheOnlyPassed ==
  /\ pc = "done"
  /\ Len(population) = 2
  /\ population[1].id \notin {result.finalPopulation[j].id : j \in 1..Len(result.finalPopulation)}
  /\ Len(result.finalPopulation) = 1
  /\ result.paretoFront = result.finalPopulation
  /\ Len(result.stats) >= 1

\* the number of survivors nsga2Select returns to the driver (232)
survivorCount == Min(cfg.populationSize \div 2, Len(genomes))

\* C25: population size is conserved: every snapshot has populationSize =
\* config.populationSize = passedProofGate + failedProofGate and the
\* population entering the gate has config.populationSize members; the next
\* generation starts with min(floor(populationSize / 2), number passed)
\* distinct survivors taken from the passed set and is filled with newly
\* created children up to populationSize.
PopulationSizeIsConserved ==
  /\ \A i \in 1..Len(stats) :
        /\ stats[i].populationSize = cfg.populationSize
        /\ stats[i].passedProofGate + stats[i].failedProofGate = cfg.populationSize
  /\ pc = "evaluate" => Len(population) = cfg.populationSize
  /\ pc = "reproduce" =>
        /\ Len(population) = cfg.populationSize
        /\ Len(genomes) = stats[Len(stats)].passedProofGate
        /\ survivorCount <= Len(nextGen) /\ Len(nextGen) < cfg.populationSize
        /\ \A k \in 1..survivorCount :
              \E j \in 1..Len(genomes) : nextGen[k] = population[genomes[j].agent]
        /\ \A k, l \in 1..survivorCount : nextGen[k].id = nextGen[l].id => k = l
        /\ \A k \in (survivorCount + 1)..Len(nextGen) :
              /\ nextGen[k].id = childId(gen, k - 1)
              /\ \A i \in 1..Len(population) : population[i].id # nextGen[k].id
  /\ (pc = "evaluate" /\ gen >= 1) =>
        \A k \in 1..Len(population) :
           (population[k].id = childId(gen - 1, k - 1))
              <=> k > Min(cfg.populationSize \div 2, stats[Len(stats)].passedProofGate)

\* a generation where one of four passed: one survivor, fewer than half of
\* the population, and three children
OneSurvivorThreeChildren ==
  /\ pc = "evaluate"
  /\ gen = 1
  /\ cfg.populationSize = 4
  /\ stats[1].passedProofGate = 1
  /\ stats[1].failedProofGate = 3
  /\ population[1].id[2] = 0
  /\ \A k \in 2..4 : population[k].id = childId(0, k - 1)

\* the child came by the clone path: no crossover tag after its last clone tag
clonedOnly(child) ==
  lastTag(child.perception.provenance, "crossover")
    < lastTag(child.perception.provenance, "clone")

\* C26: in the reproduction step a child produced on the non-crossover path
\* is a clone of the tournament winner p1 whose generation counter equals
\* p1.generation + 1.
CloneIsOneGenerationOn ==
  [][(pc = "reproduce" /\ clonedOnly(pushedChild)) =>
       \A p \in 1..Len(population) :
          population[p].id \in parentIds(pushedChild)
             => pushedChild.generation = population[p].generation + 1]_vars

\* the individual carries a verification record with verified = true
carriesVerifiedProof(agent) == agent.proof # <<>> /\ agent.proof[1].verified

\* the positions of the gated population that passed the gate
passedPositions == {genomes[j].agent : j \in 1..Len(genomes)}

\* C28: at every point of evolve an individual carries a verification record
\* with verified = true only if the gate has verified that very individual
\* and it passed the most recent gate application to it: a freshly created
\* child carries none before it is gated, and an individual that failed the
\* gate does not carry one.
ProofsAreEarnedAtTheGate ==
  /\ pc = "reproduce" =>
        /\ \A k \in (survivorCount + 1)..Len(nextGen) : ~carriesVerifiedProof(nextGen[k])
        /\ \A i \in (1..Len(population)) \ passedPositions :
              ~carriesVerifiedProof(population[i])
  /\ (pc = "evaluate" /\ gen >= 1) =>
        \A k \in 1..Len(population) :
           population[k].id = childId(gen - 1, k - 1) => ~carriesVerifiedProof(population[k])
====
